---- MODULE Spec2Model ----
(***************************************************************************)
(* A model of spatialdata's transform() engine                             *)
(* (src/src/spatialdata/_core/operations/transform.py).                    *)
(*                                                                         *)
(* The numbers of the program are binary64 doubles.  A double that is a   *)
(* dyadic rational with a short numerator and denominator is written as   *)
(* that rational, <<numerator, denominator>> in lowest terms; every other  *)
(* double is written <<[neg, bits, exp]>>, its binary digits.  Arithmetic  *)
(* on the short rationals is exact, as it is in binary64; everything else  *)
(* is computed on the digits and rounded to the nearest double, ties to    *)
(* even.  Signed zeros, infinities and NaN do not occur in the model.      *)
(***************************************************************************)
EXTENDS Integers, Sequences, FiniteSets, TLC

\* ------------------------------------------------------------------------
\* Bounds of the model
\* ------------------------------------------------------------------------
\* Number of transform() calls chained on one element (a result is fed back
\* as the next input).
MaxCalls == 2

\* ------------------------------------------------------------------------
\* Helpers
\* ------------------------------------------------------------------------
\* The sequence <<F(1), ..., F(n)>>, each member computed once.
MkSeq(n, F(_)) == SubSeq([i \in 1..n |-> F(i)], 1, n)

\* G(v), with v computed once.  The arithmetic on the digits of the numbers
\* writes the same thing in place, CHOOSE value \in {G(x) : x \in {v}} : TRUE,
\* and a sequence <<F(1), ..., F(n)>> as SubSeq([i \in 1..n |-> F(i)], 1, n).
Bind(v, G(_)) == CHOOSE y \in {G(x) : x \in {v}} : TRUE

Abs(a) == IF a < 0 THEN -a ELSE a

RECURSIVE GCD(_, _)
GCD(a, b) == IF b = 0 THEN a ELSE GCD(b, a % b)

\* n/d in lowest terms, with a positive denominator
Frac(n, d) ==
    LET g == GCD(Abs(n), Abs(d))
        s == IF d < 0 THEN -1 ELSE 1
    IN  <<(s * n) \div g, (s * d) \div g>>


\* ------------------------------------------------------------------------
\* binary64 (numpy float64)
\* ------------------------------------------------------------------------
\* A finite binary number is [neg, bits, exp]: its magnitude is bits, read as
\* a binary numeral with the most significant bit first, times 2^exp.  bits
\* has neither leading nor trailing zeros (<<>> is 0); a double has at most
\* DoublePrecision bits.
DoublePrecision == 53

MaxOf(S) == CHOOSE m \in S : \A k \in S : k <= m

Pow2(n) == 2 ^ n

DZero == [neg |-> FALSE, bits |-> <<>>, exp |-> 0]

\* Digit strings are added, subtracted, multiplied and divided a chunk of
\* digits at a time.
ChunkBits == 16

Zeros(n) == SubSeq([i \in 1..n |-> 0], 1, n)

\* The w binary digits of k < 2^w
BitsOfNat(k, w) == (CHOOSE value \in {SubSeq([i \in 1..w |-> (n \div Pow2(w - i)) % 2], 1, w) : n \in {k}} : TRUE)

RECURSIVE NatOfBits(_)
NatOfBits(b) ==
    (CHOOSE value \in {IF Len(d) = 0 THEN 0
        ELSE IF Len(d) = 1 THEN d[1]
        ELSE NatOfBits(SubSeq(d, 1, Len(d) \div 2)) * Pow2(Len(d) - Len(d) \div 2)
             + NatOfBits(SubSeq(d, Len(d) \div 2 + 1, Len(d)))
        : d \in {b}} : TRUE)

\* The binary number with the given sign, digits and exponent, in normal form.
Dyadic(neg, b, e) ==
    (CHOOSE value \in {IF \A i \in 1..Len(d) : d[i] = 0
        THEN DZero
        ELSE LET first == CHOOSE i \in 1..Len(d) : d[i] = 1 /\ \A j \in 1..(i - 1) : d[j] = 0
                 last == CHOOSE i \in 1..Len(d) : d[i] = 1 /\ \A j \in (i + 1)..Len(d) : d[j] = 0
             IN  [neg |-> neg, bits |-> SubSeq(d, first, last), exp |-> e + (Len(d) - last)]
        : d \in {b}} : TRUE)

\* a + b + carry for the first n digits of two digit strings, n + 1 digits
RECURSIVE AddCarry(_, _, _, _)
AddCarry(a, b, n, carry) ==
    IF n <= ChunkBits
    THEN BitsOfNat(NatOfBits(SubSeq(a, 1, n)) + NatOfBits(SubSeq(b, 1, n)) + carry, n + 1)
    ELSE (CHOOSE value \in {AddCarry(a, b, n - ChunkBits, sum \div Pow2(ChunkBits))
                \o BitsOfNat(sum % Pow2(ChunkBits), ChunkBits)
        : sum \in {NatOfBits(SubSeq(a, n - ChunkBits + 1, n))
                + NatOfBits(SubSeq(b, n - ChunkBits + 1, n)) + carry}} : TRUE)
AddBits(a, b) == (CHOOSE value \in {AddCarry(x, y, Len(x), 0) : x \in {a}, y \in {b}} : TRUE)

\* a - b - borrow for the first n digits of two digit strings, a >= b + borrow
RECURSIVE SubBorrow(_, _, _, _)
SubBorrow(a, b, n, borrow) ==
    IF n <= ChunkBits
    THEN BitsOfNat(NatOfBits(SubSeq(a, 1, n)) - NatOfBits(SubSeq(b, 1, n)) - borrow, n)
    ELSE (CHOOSE value \in {SubBorrow(a, b, n - ChunkBits, IF diff < 0 THEN 1 ELSE 0)
                \o BitsOfNat(IF diff < 0 THEN diff + Pow2(ChunkBits) ELSE diff, ChunkBits)
        : diff \in {NatOfBits(SubSeq(a, n - ChunkBits + 1, n))
                - NatOfBits(SubSeq(b, n - ChunkBits + 1, n)) - borrow}} : TRUE)
SubBits(a, b) == (CHOOSE value \in {SubBorrow(x, y, Len(x), 0) : x \in {a}, y \in {b}} : TRUE)

\* a < b for two digit strings of one length
BitsLess(a, b) ==
    /\ a # b
    /\ LET first == CHOOSE i \in 1..Len(a) : a[i] # b[i] /\ \A j \in 1..(i - 1) : a[j] = b[j]
       IN  a[first] < b[first]

\* The digits of two binary numbers over one exponent and one length.
AlignedBits(xb, yb, e) ==
    IF Len(xb) < Len(yb)
    THEN [x |-> Zeros(Len(yb) - Len(xb)) \o xb, y |-> yb, exp |-> e]
    ELSE [x |-> xb, y |-> Zeros(Len(xb) - Len(yb)) \o yb, exp |-> e]
Aligned(x, y) ==
    IF x.exp < y.exp
    THEN (CHOOSE value \in {AlignedBits(x.bits, yb, x.exp) : yb \in {y.bits \o Zeros(y.exp - x.exp)}} : TRUE)
    ELSE (CHOOSE value \in {AlignedBits(xb, y.bits, y.exp) : xb \in {x.bits \o Zeros(x.exp - y.exp)}} : TRUE)

\* x + y, exact
DAddAligned(x, y, al) ==
    IF x.neg = y.neg
    THEN Dyadic(x.neg, AddBits(al.x, al.y), al.exp)
    ELSE IF BitsLess(al.x, al.y)
         THEN Dyadic(y.neg, SubBits(al.y, al.x), al.exp)
         ELSE Dyadic(x.neg, SubBits(al.x, al.y), al.exp)
DAddValues(x, y) ==
    IF x = DZero THEN y
    ELSE IF y = DZero THEN x
    ELSE (CHOOSE value \in {DAddAligned(x, y, al) : al \in {Aligned(x, y)}} : TRUE)
DAdd(x, y) == (CHOOSE value \in {DAddValues(a, b) : a \in {x}, b \in {y}} : TRUE)

DNeg(x) == (CHOOSE value \in {IF a = DZero THEN a ELSE [a EXCEPT !.neg = ~a.neg] : a \in {x}} : TRUE)

\* x < y
DLessValues(x, y) ==
    IF x.neg # y.neg THEN x.neg
    ELSE IF x = y THEN FALSE
    ELSE IF x = DZero THEN ~y.neg
    ELSE IF y = DZero THEN x.neg
    ELSE IF Len(x.bits) + x.exp # Len(y.bits) + y.exp
         THEN (Len(x.bits) + x.exp < Len(y.bits) + y.exp) # x.neg
         ELSE (CHOOSE value \in {BitsLess(al.x, al.y) # x.neg : al \in {Aligned(x, y)}} : TRUE)
DLess(x, y) == (CHOOSE value \in {DLessValues(a, b) : a \in {x}, b \in {y}} : TRUE)

\* Rounding to the nearest double, ties to the even one.
RoundValue(x) ==
    IF Len(x.bits) <= DoublePrecision
    THEN x
    ELSE LET kept == SubSeq(x.bits, 1, DoublePrecision)
             up == /\ x.bits[DoublePrecision + 1] = 1
                   /\ (Len(x.bits) > DoublePrecision + 1 \/ x.bits[DoublePrecision] = 1)
         IN  IF up
             THEN Dyadic(x.neg, AddBits(kept, Zeros(DoublePrecision - 1) \o <<1>>),
                         x.exp + Len(x.bits) - DoublePrecision)
             ELSE Dyadic(x.neg, kept, x.exp + Len(x.bits) - DoublePrecision)
RoundToDouble(x) == (CHOOSE value \in {RoundValue(a) : a \in {x}} : TRUE)

\* The first n * ChunkBits digits of r/d (0 <= r < d) after the binary point,
\* and one more 1 if digits other than 0 follow them.
RECURSIVE FracBits(_, _, _)
FracBits(r, d, n) ==
    (CHOOSE value \in {IF rem = 0
        THEN <<>>
        ELSE IF n = 0
             THEN <<1>>
             ELSE BitsOfNat((rem * Pow2(ChunkBits)) \div d, ChunkBits)
                  \o FracBits((rem * Pow2(ChunkBits)) % d, d, n - 1)
        : rem \in {r}} : TRUE)

\* Chunks of digits after the binary point that the rounding of a number of
\* magnitude 2^-(2 * ChunkBits) or more reads.
FracChunks == 6

\* The double a rational is stored as.
ToDouble(q) ==
    (CHOOSE value \in {RoundToDouble(Dyadic(q[1] < 0,
                             BitsOfNat(Abs(q[1]) \div q[2], 2 * ChunkBits - 2) \o frac,
                             -Len(frac)))
        : frac \in {FracBits(Abs(q[1]) % q[2], q[2], FracChunks)}} : TRUE)

\* x + y in double precision
FAdd(x, y) == RoundToDouble(DAdd(x, y))

\* Python's int() of a double: truncation toward zero.
FTruncValue(x) ==
    LET whole == IF x.exp >= 0
                 THEN NatOfBits(x.bits) * Pow2(x.exp)
                 ELSE IF Len(x.bits) + x.exp <= 0
                      THEN 0
                      ELSE NatOfBits(SubSeq(x.bits, 1, Len(x.bits) + x.exp))
    IN  IF x.neg THEN -whole ELSE whole

\* The product and the long division work on limbs: a digit string as
\* LimbCount numbers below 2^LimbBits, the most significant first.
LimbBits == 14
LimbCount == 4

Limbs(b) ==
    (CHOOSE value \in {
        SubSeq([i \in 1..LimbCount |->
                    NatOfBits(SubSeq(padded, (i - 1) * LimbBits + 1, i * LimbBits))], 1, LimbCount)
        : padded \in {Zeros(LimbCount * LimbBits - Len(b)) \o b}} : TRUE)

\* a < b for the limbs from..LimbCount
LimbsLess(a, b, from) ==
    \E i \in from..LimbCount : a[i] < b[i] /\ \A j \in from..(i - 1) : a[j] = b[j]

\* a - b (a >= b)
LimbsSub(a, b) ==
    SubSeq([i \in 1..LimbCount |-> (a[i] - b[i] - (IF LimbsLess(a, b, i + 1) THEN 1 ELSE 0) + Pow2(LimbBits))
            % Pow2(LimbBits)], 1, LimbCount)

\* 2 * r + digit
LimbsShiftIn(r, digit) ==
    SubSeq([i \in 1..LimbCount |-> (2 * r[i] + (IF i = LimbCount THEN digit ELSE r[i + 1] \div Pow2(LimbBits - 1)))
            % Pow2(LimbBits)], 1, LimbCount)

\* The digits of a sequence of limbs
BitsOfLimbs(l) ==
    SubSeq([n \in 1..(Len(l) * LimbBits) |->
                (l[(n - 1) \div LimbBits + 1] \div Pow2(LimbBits - 1 - ((n - 1) % LimbBits))) % 2],
           1, Len(l) * LimbBits)

\* The sum of the products a[i] * b[j] of one weight: i + j = k + 1, i <= upto
RECURSIVE ColumnSum(_, _, _, _)
ColumnSum(a, b, k, upto) ==
    IF upto = 0
    THEN 0
    ELSE ColumnSum(a, b, k, upto - 1)
         + (IF k + 1 - upto \in 1..LimbCount THEN a[upto] * b[k + 1 - upto] ELSE 0)

\* The limbs of the number whose columns (sums of limb products) are cols
RECURSIVE LimbsCarry(_, _, _)
LimbsCarry(cols, k, carry) ==
    IF k = 0
    THEN <<carry>>
    ELSE (CHOOSE value \in {
            LimbsCarry(cols, k - 1, v \div Pow2(LimbBits)) \o <<v % Pow2(LimbBits)>>
            : v \in {cols[k] + carry}} : TRUE)

\* x * y for two digit strings, as a binary number
MulLimbs(xb, yb) ==
    (CHOOSE value \in {
        (CHOOSE value \in {
            Dyadic(FALSE, BitsOfLimbs(LimbsCarry(cols, 2 * LimbCount - 1, 0)), 0)
            : cols \in {SubSeq([k \in 1..(2 * LimbCount - 1) |-> ColumnSum(a, b, k, LimbCount)],
                               1, 2 * LimbCount - 1)}} : TRUE)
        : a \in {Limbs(xb)}, b \in {Limbs(yb)}} : TRUE)

\* x * y, exact
DMulValues(x, y) ==
    IF x = DZero \/ y = DZero
    THEN DZero
    ELSE (CHOOSE value \in {
            [neg |-> x.neg # y.neg, bits |-> p.bits, exp |-> p.exp + x.exp + y.exp]
            : p \in {MulLimbs(x.bits, y.bits)}} : TRUE)
DMul(x, y) == (CHOOSE value \in {DMulValues(a, b) : a \in {x}, b \in {y}} : TRUE)

\* One step of the long division by y: the remainder takes the next digit of
\* the dividend and gives a digit of the quotient.
DivStep(st, digit, y) ==
    (CHOOSE value \in {IF LimbsLess(r, y, 1)
        THEN [rem |-> r, q |-> Append(st.q, 0)]
        ELSE [rem |-> LimbsSub(r, y), q |-> Append(st.q, 1)]
        : r \in {LimbsShiftIn(st.rem, digit)}} : TRUE)

\* The steps of the division for the digits lo..hi of the dividend
RECURSIVE DivSteps(_, _, _, _, _)
DivSteps(st, dividend, y, lo, hi) ==
    IF lo = hi
    THEN DivStep(st, dividend[lo], y)
    ELSE (CHOOSE value \in {
            DivSteps(half, dividend, y, (lo + hi) \div 2 + 1, hi)
            : half \in {DivSteps(st, dividend, y, lo, (lo + hi) \div 2)}} : TRUE)

\* Digits of the quotient that are computed before the rest is summed up in
\* one more digit
QuotientBits == DoublePrecision + 3

\* x / y (y not 0): the first digits of the quotient, and one more 1 if the
\* division leaves a remainder.  The digits of the dividend in front of the
\* length of y give no digit of the quotient: they are the first remainder.
DDivValues(x, y) ==
    IF x = DZero THEN DZero
    ELSE IF y.bits = <<1>>
    THEN [x EXCEPT !.neg = (x.neg # y.neg), !.exp = @ - y.exp]
    ELSE LET shift == IF Len(y.bits) + QuotientBits > Len(x.bits)
                      THEN Len(y.bits) + QuotientBits - Len(x.bits) ELSE 0
         IN  (CHOOSE value \in {
                 (CHOOSE value \in {
                     IF st.rem = Limbs(<<>>)
                     THEN Dyadic(x.neg # y.neg, st.q, x.exp - y.exp - shift)
                     ELSE Dyadic(x.neg # y.neg, Append(st.q, 1), x.exp - y.exp - shift - 1)
                     : st \in {DivSteps([rem |-> Limbs(SubSeq(dividend, 1, Len(y.bits) - 1)),
                                         q |-> <<>>],
                                        dividend, divisor, Len(y.bits), Len(dividend))}} : TRUE)
                 : dividend \in {x.bits \o Zeros(shift)}, divisor \in {Limbs(y.bits)}} : TRUE)
DDiv(x, y) == (CHOOSE value \in {DDivValues(a, b) : a \in {x}, b \in {y}} : TRUE)

\* x * y and x / y in double precision
FMulD(x, y) == RoundToDouble(DMul(x, y))
FDiv(x, y) == RoundToDouble(DDiv(x, y))

\* Digits of a square root that are computed before the rest is summed up in
\* one more digit
RootBits == DoublePrecision + 1

\* One step of the square root, digit by digit: the remainder takes the next
\* two digits of the radicand, and the root gains the digit 1 when
\* 4 * root + 1 can be taken from the remainder.
SqrtStep(st, d1, d2) ==
    (CHOOSE value \in {IF BitsLess(r, t)
        THEN [rem |-> r, root |-> SubSeq(st.root, 2, Len(st.root)) \o <<0>>]
        ELSE [rem |-> SubBits(r, t), root |-> SubSeq(st.root, 2, Len(st.root)) \o <<1>>]
        : r \in {SubSeq(st.rem, 3, Len(st.rem)) \o <<d1, d2>>},
          t \in {SubSeq(st.root, 3, Len(st.root)) \o <<0, 1>>}} : TRUE)

\* The steps of the square root for the pairs lo..hi of digits of the radicand
RECURSIVE SqrtSteps(_, _, _, _)
SqrtSteps(st, radicand, lo, hi) ==
    IF lo = hi
    THEN SqrtStep(st, radicand[2 * lo - 1], radicand[2 * lo])
    ELSE (CHOOSE value \in {
            SqrtSteps(half, radicand, (lo + hi) \div 2 + 1, hi)
            : half \in {SqrtSteps(st, radicand, lo, (lo + hi) \div 2)}} : TRUE)

\* sqrt(x) (x >= 0): the first RootBits digits of the root, and one more 1 if
\* the root leaves a remainder.  The digits of x are moved to an even
\* exponent and to RootBits pairs.
DSqrtValues(x) ==
    IF x = DZero THEN DZero
    ELSE LET room == 2 * RootBits - Len(x.bits)
             pad == IF (x.exp - room) % 2 = 0 THEN room ELSE room - 1
         IN  (CHOOSE value \in {
                 (CHOOSE value \in {
                     IF st.rem = Zeros(RootBits + 4)
                     THEN Dyadic(FALSE, st.root, (x.exp - pad) \div 2)
                     ELSE Dyadic(FALSE, st.root \o <<1>>, (x.exp - pad) \div 2 - 1)
                     : st \in {SqrtSteps([rem |-> Zeros(RootBits + 4),
                                          root |-> Zeros(RootBits + 4)],
                                         radicand, 1, RootBits)}} : TRUE)
                 : radicand \in {Zeros(room - pad) \o x.bits \o Zeros(pad)}} : TRUE)

\* sqrt(x) in double precision
FSqrt(x) == (CHOOSE value \in {RoundToDouble(DSqrtValues(a)) : a \in {x}} : TRUE)

\* ------------------------------------------------------------------------
\* Numbers: the doubles, short dyadic rationals written as rationals
\* ------------------------------------------------------------------------
\* The largest denominator and the numerators of the doubles written as
\* rationals.
ShortDenominator == 128
ShortNumerator == 16384

PowersOfTwo == {Pow2(k) : k \in 0..30}
IsPow2(d) == d \in PowersOfTwo
Log2Of == [d \in PowersOfTwo |-> CHOOSE k \in 0..30 : d = Pow2(k)]
Log2(d) == Log2Of[d]

\* A rational in lowest terms that is written as a rational.
IsShort(q) == q[2] <= ShortDenominator /\ IsPow2(q[2]) /\ Abs(q[1]) < ShortNumerator

\* The same, of binary digits.
IsShortDouble(x) ==
    \/ x = DZero
    \/ /\ Len(x.bits) + x.exp <= Log2(ShortNumerator)
       /\ Len(x.bits) <= Log2(ShortNumerator)
       /\ x.exp >= -Log2(ShortDenominator)

\* The double nearest to a rational in lowest terms, as binary digits.
DoubleOfFrac(q) ==
    IF IsPow2(q[2])
    THEN Dyadic(q[1] < 0, BitsOfNat(Abs(q[1]), 2 * ChunkBits - 1), -Log2(q[2]))
    ELSE ToDouble(q)

\* The rational of a double with few digits.
FracOfDouble(x) ==
    IF x = DZero THEN <<0, 1>>
    ELSE LET m == NatOfBits(x.bits)
             n == IF x.exp >= 0 THEN m * Pow2(x.exp) ELSE m
         IN  <<IF x.neg THEN -n ELSE n, IF x.exp >= 0 THEN 1 ELSE Pow2(-x.exp)>>

\* The number of a double given by its digits, and of a rational in lowest
\* terms (the double nearest to it).
NumOfDouble(x) == (CHOOSE value \in {IF IsShortDouble(a) THEN FracOfDouble(a) ELSE <<a>> : a \in {x}} : TRUE)
NumOfFrac(q) == (CHOOSE value \in {IF IsShort(a) THEN a ELSE <<DoubleOfFrac(a)>> : a \in {q}} : TRUE)

\* The digits of a number.
IsRational(a) == Len(a) = 2
DoubleOf(a) == IF IsRational(a) THEN DoubleOfFrac(a) ELSE a[1]

\* The double nearest to n/d
Rat(n, d) == NumOfFrac(Frac(n, d))

RInt(k) == <<k, 1>>
RZero == RInt(0)
ROne == RInt(1)
RHalf == <<1, 2>>

\* a + b in double precision
RAddValues(a, b) ==
    IF a = RZero THEN b
    ELSE IF b = RZero THEN a
    ELSE IF IsRational(a) /\ IsRational(b)
         THEN NumOfFrac(Frac(a[1] * b[2] + b[1] * a[2], a[2] * b[2]))
         ELSE NumOfDouble(FAdd(DoubleOf(a), DoubleOf(b)))
RAdd(a, b) == (CHOOSE value \in {RAddValues(x, y) : x \in {a}, y \in {b}} : TRUE)

RNeg(a) == (CHOOSE value \in {IF IsRational(x) THEN <<-x[1], x[2]>> ELSE <<DNeg(x[1])>> : x \in {a}} : TRUE)
RSub(a, b) == RAdd(a, RNeg(b))

\* a * b in double precision
RMulValues(a, b) ==
    IF a = RZero \/ b = RZero THEN RZero
    ELSE IF a = ROne THEN b
    ELSE IF b = ROne THEN a
    ELSE IF IsRational(a) /\ IsRational(b)
         THEN NumOfFrac(Frac(a[1] * b[1], a[2] * b[2]))
         ELSE NumOfDouble(FMulD(DoubleOf(a), DoubleOf(b)))
RMul(a, b) == (CHOOSE value \in {RMulValues(x, y) : x \in {a}, y \in {b}} : TRUE)

\* a / b in double precision (b not 0): the quotient of two short rationals
\* is rounded from its exact value
RDivValues(a, b) ==
    IF b = ROne THEN a
    ELSE IF a = RZero THEN RZero
    ELSE IF IsRational(a) /\ IsRational(b) /\ (IsPow2(Abs(b[1])) \/ a[2] * Abs(b[1]) < Pow2(ChunkBits - 1))
         THEN NumOfFrac(Frac(a[1] * b[2], a[2] * b[1]))
         ELSE NumOfDouble(FDiv(DoubleOf(a), DoubleOf(b)))
RDiv(a, b) == (CHOOSE value \in {RDivValues(x, y) : x \in {a}, y \in {b}} : TRUE)

\* sqrt(a) in double precision (a >= 0)
RSqrt(a) == (CHOOSE value \in {IF x = ROne THEN x ELSE NumOfDouble(FSqrt(DoubleOf(x))) : x \in {a}} : TRUE)

RLess(a, b) ==
    (CHOOSE value \in {IF IsRational(x) /\ IsRational(y)
        THEN x[1] * y[2] < y[1] * x[2]
        ELSE DLess(DoubleOf(x), DoubleOf(y))
        : x \in {a}, y \in {b}} : TRUE)
RAbs(a) ==
    (CHOOSE value \in {IF IsRational(x) THEN <<Abs(x[1]), x[2]>> ELSE <<[x[1] EXCEPT !.neg = FALSE]>> : x \in {a}} : TRUE)
RMin(a, b) == IF RLess(b, a) THEN b ELSE a
RMax(a, b) == IF RLess(a, b) THEN b ELSE a

\* Python's int() of a number: truncation toward zero
RTrunc(a) == (CHOOSE value \in {FTruncValue(DoubleOf(x)) : x \in {a}} : TRUE)

\* np.min and np.max of a column
RECURSIVE RMinSeq(_)
RMinSeq(s) ==
    IF Len(s) = 1 THEN s[1] ELSE (CHOOSE value \in {RMin(Head(s), rest) : rest \in {RMinSeq(Tail(s))}} : TRUE)
RECURSIVE RMaxSeq(_)
RMaxSeq(s) ==
    IF Len(s) = 1 THEN s[1] ELSE (CHOOSE value \in {RMax(Head(s), rest) : rest \in {RMaxSeq(Tail(s))}} : TRUE)

\* The sum of the products row[1] * col[1], ..., row[k] * col[k], each
\* product and each partial sum rounded, in the order of the index.
RECURSIVE Dot(_, _, _)
Dot(row, col, k) ==
    IF k = 0
    THEN RZero
    ELSE RAdd(Dot(row, col, k - 1), RMul(row[k], col[k]))

\* np.mean: the sum in the order of the index, divided by the length
RECURSIVE RSumSeq(_)
RSumSeq(s) ==
    IF s = <<>> THEN RZero
    ELSE (CHOOSE value \in {RAdd(rest, s[Len(s)]) : rest \in {RSumSeq(SubSeq(s, 1, Len(s) - 1))}} : TRUE)

\* ------------------------------------------------------------------------
\* Matrices: a matrix is a sequence of rows
\* ------------------------------------------------------------------------
IdMat(n) == MkSeq(n, LAMBDA i : MkSeq(n, LAMBDA j : IF i = j THEN ROne ELSE RZero))

Column(rows, i) == MkSeq(Len(rows), LAMBDA k : rows[k][i])

\* A @ B
MatMulValues(A, B) ==
    Bind(MkSeq(Len(B[1]), LAMBDA j : Column(B, j)), LAMBDA columns :
        MkSeq(Len(A), LAMBDA i :
            MkSeq(Len(columns), LAMBDA j : Dot(A[i], columns[j], Len(B)))))
MatMul(A, B) == Bind(A, LAMBDA a : Bind(B, LAMBDA b : MatMulValues(a, b)))

\* matrix @ v for a vector v
MatVec(A, v) == MkSeq(Len(A), LAMBDA i : Dot(A[i], v, Len(v)))

\* Position of axis ax in the axis tuple axes (0 when absent).
AxisPos(axes, ax) ==
    IF \E i \in 1..Len(axes) : axes[i] = ax
    THEN CHOOSE i \in 1..Len(axes) : axes[i] = ax
    ELSE 0

SeqRange(s) == {s[i] : i \in 1..Len(s)}

\* ------------------------------------------------------------------------
\* Transformations (spatialdata.transformations.transformations)
\* ------------------------------------------------------------------------
NoneValue == "None"
NoTransformation == [type |-> "None"]
Identity == [type |-> "Identity"]
Translation(v, axes) == [type |-> "Translation", translation |-> v, axes |-> axes]
Scale(v, axes) == [type |-> "Scale", scale |-> v, axes |-> axes]
\* An affine matrix with input_axes = output_axes = axes.
Affine(m, axes) == [type |-> "Affine", matrix |-> m, axes |-> axes]
Sequence(ts) == [type |-> "Sequence", transformations |-> ts]

\* BaseTransformation._get_n_spatial_dims: the axes other than the channel.
GetNSpatialDims(axes) == Cardinality({i \in 1..Len(axes) : axes[i] # "c"})

RECURSIVE ToAffineMatrix(_, _)
RECURSIVE SequenceMatrix(_, _)
\* Sequence.to_affine_matrix: the members are applied in list order, the
\* matrix of each member multiplying the matrix composed so far from the
\* left.
SequenceMatrix(ts, axes) ==
    IF ts = <<>> THEN IdMat(Len(axes) + 1)
    ELSE MatMul(ToAffineMatrix(ts[Len(ts)], axes),
                SequenceMatrix(SubSeq(ts, 1, Len(ts) - 1), axes))

\* to_affine_matrix(input_axes = axes, output_axes = axes): an axis the
\* transformation does not name is passed through.
ToAffineMatrix(t, axes) ==
    LET n == Len(axes)
        P(i) == IF i = n + 1 THEN Len(t.axes) + 1 ELSE AxisPos(t.axes, axes[i])
    IN  CASE t.type = "Identity" -> IdMat(n + 1)
          [] t.type = "Translation" ->
                MkSeq((n + 1), LAMBDA i : MkSeq((n + 1), LAMBDA j :
                    IF i = j THEN ROne
                    ELSE IF j = n + 1 /\ P(i) # 0 THEN t.translation[P(i)]
                    ELSE RZero))
          [] t.type = "Scale" ->
                MkSeq((n + 1), LAMBDA i : MkSeq((n + 1), LAMBDA j :
                    IF i # j THEN RZero
                    ELSE IF i <= n /\ P(i) # 0 THEN t.scale[P(i)]
                    ELSE ROne))
          [] t.type = "Affine" ->
                MkSeq((n + 1), LAMBDA i : MkSeq((n + 1), LAMBDA j :
                    IF P(i) # 0 /\ P(j) # 0 THEN t.matrix[P(i)][P(j)]
                    ELSE IF i = j THEN ROne ELSE RZero))
          [] t.type = "Sequence" -> SequenceMatrix(t.transformations, axes)

\* Inverse of a homogeneous matrix over two axes:
\* [[a, b, tx], [c, d, ty], [0, 0, 1]], with a non-zero determinant.
MatInverse2D(m) ==
    Bind(RSub(RMul(m[1][1], m[2][2]), RMul(m[1][2], m[2][1])), LAMBDA det :
    Bind(RDiv(m[2][2], det), LAMBDA ia :
    Bind(RDiv(RNeg(m[1][2]), det), LAMBDA ib :
    Bind(RDiv(RNeg(m[2][1]), det), LAMBDA ic :
    Bind(RDiv(m[1][1], det), LAMBDA id :
    Bind(RMul(ia, m[1][3]), LAMBDA iatx : Bind(RMul(ib, m[2][3]), LAMBDA ibty :
    Bind(RMul(ic, m[1][3]), LAMBDA ictx : Bind(RMul(id, m[2][3]), LAMBDA idty :
        << <<ia, ib, RNeg(RAdd(iatx, ibty))>>,
           <<ic, id, RNeg(RAdd(ictx, idty))>>,
           <<RZero, RZero, ROne>> >>)))))))))

Reverse(s) == MkSeq(Len(s), LAMBDA i : s[Len(s) + 1 - i])

RECURSIVE Inverse(_)
\* BaseTransformation.inverse()
Inverse(t) ==
    CASE t.type = "Identity" -> Identity
      [] t.type = "Translation" ->
            Translation(MkSeq(Len(t.translation), LAMBDA i : RNeg(t.translation[i])), t.axes)
      [] t.type = "Scale" ->
            Scale(MkSeq(Len(t.scale), LAMBDA i : RDiv(ROne, t.scale[i])), t.axes)
      [] t.type = "Affine" -> Affine(MatInverse2D(t.matrix), t.axes)
      [] t.type = "Sequence" ->
            Sequence(Reverse(MkSeq(Len(t.transformations), LAMBDA i : Inverse(t.transformations[i]))))

\* BaseTransformation.__eq__: structural equality.
TransformationEq(a, b) == a = b

\* ------------------------------------------------------------------------
\* The registry of an element (spatialdata.transformations.operations)
\* ------------------------------------------------------------------------
DEFAULT_COORDINATE_SYSTEM == "global"
EmptyRegistry == [cs \in {} |-> Identity]

\* get_transformation(element, get_all=True) on the registry d of the element
GetAllTransformations(d) == d
\* get_transformation(element, to_coordinate_system=cs): the entry exists
HasTransformation(d, cs) == cs \in DOMAIN d
\* set_transformation(element, t, to_coordinate_system=cs): a missing name
\* means the default coordinate system
SetTransformation(d, t, cs) ==
    LET key == IF cs = NoneValue THEN DEFAULT_COORDINATE_SYSTEM ELSE cs
    IN  [k \in (DOMAIN d) \cup {key} |-> IF k = key THEN t ELSE d[k]]
\* remove_transformation(element, remove_all=True)
RemoveAllTransformations(d) == EmptyRegistry

\* ------------------------------------------------------------------------
\* _validate_target_coordinate_systems
\* ------------------------------------------------------------------------
Resolved(t, cs, warned) ==
    [ok |-> TRUE, error |-> "none", transformation |-> t,
     to_coordinate_system |-> cs, warned |-> warned]
Raised(e) ==
    [ok |-> FALSE, error |-> e, transformation |-> NoTransformation,
     to_coordinate_system |-> NoneValue, warned |-> FALSE]

\* The only key of a registry with one entry: list(d.keys())[0]
FirstKey(d) == CHOOSE k \in DOMAIN d : TRUE

\* Variant of ValidateNotMaintain that looks up the first entry of the registry
\* instead of the entry of to_coordinate_system.
ValidateNotMaintainFirstKey(d, transformation, to_coordinate_system) ==
    IF transformation = NoTransformation /\ to_coordinate_system # NoneValue
    THEN IF to_coordinate_system \in DOMAIN d
         THEN Resolved(d[FirstKey(d)], FirstKey(d), FALSE)
         ELSE Raised("AssertionError: coordinate system not found in element")
    ELSE IF /\ transformation # NoTransformation
            /\ to_coordinate_system = NoneValue
            /\ Cardinality(DOMAIN d) = 1
            /\ TransformationEq(transformation, d[FirstKey(d)])
         THEN Resolved(transformation, FirstKey(d), TRUE)
         ELSE Raised("RuntimeError: ERROR_MSG_AFTER_0_0_15")

\* Variant of ValidateNotMaintain that does not compare the transformation with
\* the single entry of the registry.
ValidateNotMaintainNoEquality(d, transformation, to_coordinate_system) ==
    IF transformation = NoTransformation /\ to_coordinate_system # NoneValue
    THEN IF to_coordinate_system \in DOMAIN d
         THEN Resolved(d[to_coordinate_system], to_coordinate_system, FALSE)
         ELSE Raised("AssertionError: coordinate system not found in element")
    ELSE IF /\ transformation # NoTransformation
            /\ to_coordinate_system = NoneValue
            /\ Cardinality(DOMAIN d) = 1
         THEN Resolved(transformation, FirstKey(d), TRUE)
         ELSE Raised("RuntimeError: ERROR_MSG_AFTER_0_0_15")

\* maintain_positioning = False
ValidateNotMaintain(d, transformation, to_coordinate_system) ==
    IF transformation = NoTransformation /\ to_coordinate_system # NoneValue
    THEN IF to_coordinate_system \in DOMAIN d
         THEN Resolved(d[to_coordinate_system], to_coordinate_system, FALSE)
         ELSE Raised("AssertionError: coordinate system not found in element")
    ELSE IF /\ transformation # NoTransformation
            /\ to_coordinate_system = NoneValue
            /\ Cardinality(DOMAIN d) = 1
            /\ TransformationEq(transformation, d[FirstKey(d)])
         THEN Resolved(transformation, FirstKey(d), TRUE)
         ELSE Raised("RuntimeError: ERROR_MSG_AFTER_0_0_15")

\* Variant of ValidateMaintain that accepts a transformation together with a
\* target (the assert only rejects the call with neither).
ValidateMaintainBothAllowed(d, transformation, to_coordinate_system) ==
    IF transformation = NoTransformation /\ to_coordinate_system = NoneValue
    THEN Raised("AssertionError: only one of transformation and to_coordinate_system can be None")
    ELSE IF transformation # NoTransformation
         THEN Resolved(transformation, NoneValue, FALSE)
         ELSE IF HasTransformation(d, to_coordinate_system)
              THEN Resolved(d[to_coordinate_system], NoneValue, FALSE)
              ELSE Raised("CoordinateSystemNotFoundError")

\* maintain_positioning = True
ValidateMaintain(d, transformation, to_coordinate_system) ==
    IF (transformation = NoTransformation) = (to_coordinate_system = NoneValue)
    THEN Raised("AssertionError: only one of transformation and to_coordinate_system can be None")
    ELSE IF transformation # NoTransformation
         THEN Resolved(transformation, to_coordinate_system, FALSE)
         ELSE IF HasTransformation(d, to_coordinate_system)
              THEN Resolved(d[to_coordinate_system], NoneValue, FALSE)
              ELSE Raised("CoordinateSystemNotFoundError")

ValidateTargetCoordinateSystems(d, transformation, maintain_positioning, to_coordinate_system) ==
    IF ~maintain_positioning
    THEN ValidateNotMaintain(GetAllTransformations(d), transformation, to_coordinate_system)
    ELSE ValidateMaintain(d, transformation, to_coordinate_system)

\* ------------------------------------------------------------------------
\* _transform_raster
\* ------------------------------------------------------------------------
\* shape[len(shape) - n_spatial_dims:]
SpatialShape(shape, axes) ==
    LET n == GetNSpatialDims(axes)
    IN  MkSeq(n, LAMBDA i : shape[Len(shape) - n + i])

\* axes[-n_spatial_dims:]
SpatialAxes(axes) ==
    LET n == GetNSpatialDims(axes)
    IN  MkSeq(n, LAMBDA i : axes[Len(axes) - n + i])

\* (data.shape[0],) if "c" in axes else ()
CShape(shape, axes) == IF "c" \in SeqRange(axes) THEN <<shape[1]>> ELSE <<>>

\* itertools.product([0, 1], repeat=n) * spatial_shape, as homogeneous rows
\* with a leading 0 for the channel axis
CornerPoints(shape, axes) ==
    LET n == GetNSpatialDims(axes)
        ss == SpatialShape(shape, axes)
        bit(k, i) == ((k - 1) \div Pow2(n - i)) % 2
        c_channel == IF "c" \in SeqRange(axes) THEN <<RZero>> ELSE <<>>
    IN  MkSeq(Pow2(n), LAMBDA k :
            c_channel \o MkSeq(n, LAMBDA i : RInt(bit(k, i) * ss[i])) \o <<ROne>>)

\* new_v = (matrix @ v.T).T: one row for each corner
MappedCorners(matrix, v) == MkSeq(Len(v), LAMBDA k : MatVec(matrix, v[k]))

\* int(np.max(new_v[:, i]) - np.min(new_v[:, i]))
ExtentToPixels(column) ==
    Bind(column, LAMBDA c :
        Bind(RMaxSeq(c), LAMBDA max : Bind(RMinSeq(c), LAMBDA min : RTrunc(RSub(max, min)))))

\* new_spatial_shape, from the mapped corners
NewSpatialShape(new_v, shape, axes) ==
    LET nc == Len(CShape(shape, axes))
        n == GetNSpatialDims(axes)
    IN  MkSeq(n, LAMBDA i : ExtentToPixels(Column(new_v, nc + i)))

\* np.min(new_v[:, :-1], axis=0)
TranslationVector(new_v, axes) == MkSeq(Len(axes), LAMBDA i : RMinSeq(Column(new_v, i)))

\* Variant of InverseMatrixAdjusted: the inverse of the matrix of the sequence.
InverseMatrixAdjustedInverted(translation, transformation, axes) ==
    ToAffineMatrix(Inverse(Sequence(<<translation, Inverse(transformation)>>)), axes)

\* the matrix handed to dask_image.ndinterp.affine_transform
InverseMatrixAdjusted(translation, transformation, axes) ==
    ToAffineMatrix(Sequence(<<translation, Inverse(transformation)>>), axes)

\* new_pixel_sizes = np.array(new_spatial_shape) / np.array(spatial_shape)
NewPixelSizes(new_spatial_shape, shape, axes) ==
    LET ss == SpatialShape(shape, axes)
    IN  MkSeq(Len(ss), LAMBDA i : RDiv(RInt(new_spatial_shape[i]), RInt(ss[i])))

\* Translation(-new_pixel_sizes / 2 + 0.5, axes=spatial_axes)
NewPixelSizeOffset(new_spatial_shape, shape, axes) ==
    Bind(NewPixelSizes(new_spatial_shape, shape, axes), LAMBDA new_pixel_sizes :
        Translation(
            MkSeq(Len(new_pixel_sizes), LAMBDA i :
                RAdd(RDiv(RNeg(new_pixel_sizes[i]), RInt(2)), RHalf)),
            SpatialAxes(axes)))

RasterTranslation(new_spatial_shape, shape, axes, translation) ==
    Sequence(<<NewPixelSizeOffset(new_spatial_shape, shape, axes), translation>>)

\* _transform_raster: the call of the resampling collaborator (request), the
\* shape of the array it returns and the raster_translation.
TransformRaster(shape, axes, transformation, kwargs) ==
    Bind(ToAffineMatrix(transformation, axes), LAMBDA matrix :
    Bind(MappedCorners(matrix, CornerPoints(shape, axes)), LAMBDA new_v :
    Bind(NewSpatialShape(new_v, shape, axes), LAMBDA new_spatial_shape :
    Bind(Translation(TranslationVector(new_v, axes), axes), LAMBDA translation :
        [request |->
            [matrix |-> InverseMatrixAdjusted(translation, transformation, axes),
             output_shape |-> CShape(shape, axes) \o new_spatial_shape,
             kwargs |-> kwargs],
         shape |-> CShape(shape, axes) \o new_spatial_shape,
         raster_translation |->
            RasterTranslation(new_spatial_shape, shape, axes, translation)]))))

\* ------------------------------------------------------------------------
\* _adjust_transformations
\* ------------------------------------------------------------------------
RasterKinds == {"SpatialImage", "MultiscaleSpatialImage"}
TableKinds == {"GeoDataFrame", "DaskDataFrame"}
ElementKinds == RasterKinds \cup TableKinds

\* Variant of ToPrepend that leaves raster_translation out when the
\* positioning is maintained.
ToPrependInverseOnly(kind, transformation, raster_translation, maintain_positioning) ==
    IF maintain_positioning THEN Inverse(transformation)
    ELSE IF kind \in {"SpatialImage", "MultiscaleSpatialImage"} THEN raster_translation
    ELSE Identity

\* to_prepend, or NoTransformation where the code has None
ToPrepend(kind, transformation, raster_translation, maintain_positioning) ==
    IF kind \in RasterKinds
    THEN IF maintain_positioning
         THEN Sequence(<<raster_translation, Inverse(transformation)>>)
         ELSE raster_translation
    ELSE IF maintain_positioning THEN Inverse(transformation) ELSE Identity

\* The asserts and the TypeError that precede the rewrite of the registry;
\* d is the registry of the new element.
AdjustFailure(kind, d, raster_translation, maintain_positioning, to_coordinate_system) ==
    IF maintain_positioning /\ to_coordinate_system # NoneValue
        THEN "AssertionError: to_coordinate_system is not None"
    ELSE IF kind \in RasterKinds /\ raster_translation = NoTransformation
        THEN "AssertionError: raster_translation is None"
    ELSE IF kind \in TableKinds /\ raster_translation # NoTransformation
        THEN "AssertionError: raster_translation is not None"
    ELSE IF kind \notin ElementKinds
        THEN "TypeError: Unsupported type"
    ELSE IF Cardinality(DOMAIN d) # 1
        THEN "AssertionError: len(d) != 1"
    ELSE IF DEFAULT_COORDINATE_SYSTEM \notin DOMAIN d
        THEN "KeyError"
    ELSE IF d[DEFAULT_COORDINATE_SYSTEM] # Identity
        THEN "AssertionError: not Identity"
    ELSE "none"

\* Variant of PrependToAll that sets to_prepend alone, not composed with the
\* old transformation.
PrependToAllWithoutOld(old_transformations, to_prepend) ==
    [cs \in DOMAIN old_transformations |-> to_prepend]

\* for cs, t in old_transformations.items(): set_transformation(element, Sequence([to_prepend, t]), cs)
PrependToAll(old_transformations, to_prepend) ==
    [cs \in DOMAIN old_transformations |-> Sequence(<<to_prepend, old_transformations[cs]>>)]

\* Variant of AdjustedRegistry that ignores maintain_positioning.
AdjustedRegistryIgnoringFlag(old_transformations, to_prepend, mp, to_coordinate_system) ==
    SetTransformation(RemoveAllTransformations(EmptyRegistry), to_prepend, to_coordinate_system)

\* The registry of the element after remove_transformation and the branch
\* on maintain_positioning.
AdjustedRegistry(old_transformations, to_prepend, maintain_positioning, to_coordinate_system) ==
    IF maintain_positioning
    THEN PrependToAll(old_transformations, to_prepend)
    ELSE SetTransformation(RemoveAllTransformations(EmptyRegistry), to_prepend, to_coordinate_system)

AdjustTransformations(kind, d, old_transformations, transformation, rt, maintain_positioning, to_cs) ==
    LET raster_translation == rt
        to_coordinate_system == to_cs
        failure == AdjustFailure(kind, d, raster_translation, maintain_positioning,
                                 to_coordinate_system)
    IN  IF failure # "none"
        THEN [ok |-> FALSE, error |-> failure, registry |-> d]
        ELSE [ok |-> TRUE, error |-> "none",
              registry |-> AdjustedRegistry(
                  old_transformations,
                  ToPrepend(kind, transformation, raster_translation, maintain_positioning),
                  maintain_positioning, to_coordinate_system)]

\* The to_coordinate_system argument the four handlers give to
\* _adjust_transformations: they do not pass one, so it is the default None.
AdjustTargetArgument(to_coordinate_system) == NoneValue

\* ------------------------------------------------------------------------
\* Points (DaskDataFrame) and shapes (GeoDataFrame)
\* ------------------------------------------------------------------------
\* BaseTransformation._transform_coordinates: the matrix over the axes applied
\* to the homogeneous rows
TransformCoordinates(transformation, coords, axes) ==
    Bind(ToAffineMatrix(transformation, axes), LAMBDA matrix :
        MkSeq(Len(coords), LAMBDA r :
            SubSeq(MatVec(matrix, coords[r] \o <<ROne>>), 1, Len(axes))))

\* Variant of TransformPoints that writes the transformed columns back in
\* reversed axis order.
TransformPointsSwappedAxes(data, transformation) ==
    [coords |-> MkSeq(Len(data.coords), LAMBDA r :
                    Reverse(TransformCoordinates(transformation, data.coords, data.axes)[r])),
     columns |-> data.columns]

\* Variant of TransformPoints that loses the values of the other columns.
TransformPointsWithoutColumns(data, transformation) ==
    [coords |-> TransformCoordinates(transformation, data.coords, data.axes),
     columns |-> MkSeq(Len(data.columns), LAMBDA r : "")]

\* The data of the transformed points: the coordinate columns are replaced,
\* the other columns are those of data.drop(columns=axes).copy().
TransformPoints(data, transformation) ==
    [coords |-> TransformCoordinates(transformation, data.coords, data.axes),
     columns |-> data.columns]

\* np.linalg.eigvals is LAPACK's dgeev.  It first balances the matrix
\* (dgebal): for each index the row is divided and the column multiplied by
\* the power of two f that brings the norm c of the column and the norm r of
\* the row, both without the diagonal, within a factor of two of each other,
\* when that makes c + r smaller than 0.95 of what it was.
BalanceFactor == Rat(19, 20)

RECURSIVE BalanceUp(_)
BalanceUp(st) ==
    IF RLess(st.c, RDiv(st.r, RInt(2)))
    THEN BalanceUp([f |-> RMul(st.f, RInt(2)), c |-> RMul(st.c, RInt(2)),
                    r |-> RDiv(st.r, RInt(2))])
    ELSE st

RECURSIVE BalanceDown(_)
BalanceDown(st) ==
    IF RLess(RDiv(st.c, RInt(2)), st.r)
    THEN st
    ELSE BalanceDown([f |-> RDiv(st.f, RInt(2)), c |-> RDiv(st.c, RInt(2)),
                      r |-> RMul(st.r, RInt(2))])

\* The factor f of one index, 1 when the index is left as it is
BalanceScale(c, r) ==
    Bind(BalanceDown(BalanceUp([f |-> ROne, c |-> c, r |-> r])), LAMBDA st :
        IF RLess(RAdd(st.c, st.r), RMul(BalanceFactor, RAdd(c, r))) THEN st.f ELSE ROne)

\* dgebal on a block [[0, b], [c, 0]], given and returned as <<|b|, |c|>>:
\* index 1 (column norm |c|, row norm |b|), then index 2 (column norm |b|,
\* row norm |c|), again until neither is scaled.
RECURSIVE Balanced(_, _)
Balanced(b, c) ==
    Bind(BalanceScale(c, b), LAMBDA f1 :
    Bind(RDiv(b, f1), LAMBDA b1 :
    Bind(RMul(c, f1), LAMBDA c1 :
    Bind(BalanceScale(b1, c1), LAMBDA f2 :
        IF f1 = ROne /\ f2 = ROne
        THEN <<b, c>>
        ELSE Balanced(RMul(b1, f2), RDiv(c1, f2))))))

\* Moduli of the eigenvalues of the 2x2 linear block of a matrix
\* (np.absolute(np.linalg.eigvals(matrix[:-1, :-1]))).  The blocks of the
\* model are products of scales and quarter turns: triangular, with the
\* diagonal as eigenvalues, or [[0, b], [c, 0]] with b and c of opposite
\* signs, for which dgeev returns, from the balanced block, the pair
\* 0 +- i * sqrt(|b|) * sqrt(|c|) (dlanv2), of modulus sqrt(|b|) * sqrt(|c|).
EigenvalueModules(matrix) ==
    IF matrix[1][2] = RZero \/ matrix[2][1] = RZero
    THEN <<RAbs(matrix[1][1]), RAbs(matrix[2][2])>>
    ELSE Bind(Balanced(RAbs(matrix[1][2]), RAbs(matrix[2][1])), LAMBDA bc :
         Bind(RMul(RSqrt(bc[1]), RSqrt(bc[2])), LAMBDA m : <<m, m>>))

\* The doubles 1e-05 and 1e-08: rtol and atol of np.allclose
AllCloseRtol == NumOfDouble(Dyadic(FALSE, BitsOfLimbs(<<1342, 2904, 9101, 10481>>), -69))
AllCloseAtol == NumOfDouble(Dyadic(FALSE, BitsOfLimbs(<<687, 3191, 1121, 1565>>), -78))

\* np.isclose(a, b): abs(a - b) <= atol + rtol * abs(b)
IsClose(a, b) ==
    \/ a = b
    \/ ~RLess(RAdd(AllCloseAtol, RMul(AllCloseRtol, RAbs(b))), RAbs(RSub(a, b)))

\* np.allclose(modules, modules[0])
IsIsotropic(modules) == \A i \in 1..Len(modules) : IsClose(modules[i], modules[1])

RadiusScaleFactor(modules) ==
    IF ~IsIsotropic(modules)
    THEN RDiv(RSumSeq(modules), RInt(Len(modules)))
    ELSE modules[1]

\* isinstance(transformed_geometry.iloc[0], Point) and "radius" in columns
RadiusIsScaled(data) == data.geometry[1].gtype = "Point" /\ data.has_radius

TransformShapes(data, transformation) ==
    LET ndim == Len(data.axes)
        xyz == SubSeq(<<"x", "y", "z">>, 1, ndim)
        matrix == ToAffineMatrix(transformation, xyz)
        modules == EigenvalueModules(matrix)
        scaled == RadiusIsScaled(data)
    IN  [geometry |->
            MkSeq(Len(data.geometry), LAMBDA g :
                [gtype |-> data.geometry[g].gtype,
                 coords |-> TransformCoordinates(transformation, data.geometry[g].coords,
                                                 xyz)]),
         has_radius |-> data.has_radius,
         radius |-> IF scaled
                    THEN MkSeq(Len(data.radius), LAMBDA g :
                            RMul(data.radius[g], RadiusScaleFactor(modules)))
                    ELSE data.radius,
         warned |-> scaled /\ ~IsIsotropic(modules)]

\* ------------------------------------------------------------------------
\* Rasters: SpatialImage and MultiscaleSpatialImage
\* ------------------------------------------------------------------------
\* kwargs of the SpatialImage handler
SpatialImageKwargs == [prefilter |-> "False", order |-> "0"]

\* kwargs of the MultiscaleSpatialImage handler, by schema
MultiscaleKwargs(schema) ==
    IF schema \in {"Labels2DModel", "Labels3DModel"}
    THEN [prefilter |-> "False"]
    ELSE [k \in {} |-> "0"]

MultiscaleSchemaSupported(schema) ==
    schema \in {"Labels2DModel", "Labels3DModel", "Image2DModel", "Image3DModel"}

\* Variant of Composed: every level is resampled with the transformation
\* itself.
ComposedWithoutScale(level, transformation) == transformation

\* the transformation a pyramid level is resampled with
Composed(level, transformation) ==
    IF level.name = "scale0"
    THEN transformation
    ELSE Sequence(<<level.scale, transformation, Inverse(level.scale)>>)

\* the loop over data.items(): one _transform_raster per level, in order
TransformLevels(levels, transformation, kwargs) ==
    MkSeq(Len(levels), LAMBDA i :
        TransformRaster(levels[i].shape, levels[i].axes,
                        Composed(levels[i], transformation), kwargs))

\* raster_translation is set by the first level of the iteration only
MultiscaleRasterTranslation(results) == results[1].raster_translation

\* The scale set_transformation gives a level of a pyramid: the ratio of the
\* shape of the level 'scale0' to the shape of the level, over the spatial
\* axes.
LevelScale(levels, i) ==
    LET zero == CHOOSE k \in 1..Len(levels) : levels[k].name = "scale0"
        s0 == SpatialShape(levels[zero].shape, levels[zero].axes)
        si == SpatialShape(levels[i].shape, levels[i].axes)
    IN  IF i = zero
        THEN Identity
        ELSE Scale(MkSeq(Len(si), LAMBDA k : RDiv(RInt(s0[k]), RInt(si[k]))),
                   SpatialAxes(levels[i].axes))

\* transformed_dict: every level keeps its key and its dims and holds the
\* resampled array; from_dict and set_transformation make the pyramid of them.
NewLevels(levels, results) ==
    Bind(MkSeq(Len(levels), LAMBDA i : [levels[i] EXCEPT !.shape = results[i].shape]),
         LAMBDA resampled :
            MkSeq(Len(resampled), LAMBDA i :
                [resampled[i] EXCEPT !.scale = LevelScale(resampled, i)]))

\* ------------------------------------------------------------------------
\* Inputs of the model
\* ------------------------------------------------------------------------
XY == <<"x", "y">>
YX == <<"y", "x">>
CYX == <<"c", "y", "x">>

Rot90 ==
    Affine(<< <<RZero, RInt(-1), RZero>>,
              <<ROne, RZero, RZero>>,
              <<RZero, RZero, ROne>> >>, XY)
Rot270 ==
    Affine(<< <<RZero, ROne, RZero>>,
              <<RInt(-1), RZero, RZero>>,
              <<RZero, RZero, ROne>> >>, XY)

\* The transformations a caller passes: pairs of a transformation and its
\* inverse(), a translation by a tenth of a pixel, which no double holds
\* exactly, and a scale that differs between the axes.
ArgTransformations ==
    {Identity,
     Translation(<<RHalf, RInt(2)>>, XY), Translation(<<RNeg(RHalf), RInt(-2)>>, XY),
     Translation(<<RInt(2), Rat(1, 10)>>, XY),
     Scale(<<RInt(2), RInt(2)>>, XY), Scale(<<RHalf, RHalf>>, XY),
     Scale(<<ROne, RInt(4)>>, XY),
     Rot90, Rot270}

\* The coordinate-system names a caller passes.
ArgCoordinateSystems == {"global", "physical", "missing"}

InitialRegistries ==
    {[cs \in {"global"} |-> Identity],
     [cs \in {"global", "physical"} |->
        IF cs = "global" THEN Rot90 ELSE Scale(<<RInt(2), RInt(2)>>, XY)],
     [cs \in {"physical"} |-> Translation(<<RHalf, RInt(2)>>, XY)]}

\* transform() has no guard on the shape of an array: an empty array is
\* resampled like any other (its pixel sizes are 0 / 0).  The shapes below
\* are large enough that no array of a chain of the model is empty.
InitialImages ==
    {[kind |-> "SpatialImage", schema |-> "Image2DModel", axes |-> CYX, shape |-> <<2, 4, 5>>],
     [kind |-> "SpatialImage", schema |-> "Labels2DModel", axes |-> YX, shape |-> <<5, 4>>]}

\* Pyramids, with the levels in the order of the keys of the tree: an image
\* whose second level has half the rows and a quarter of the columns of the
\* first, a label mask of a single level, and the image pyramid built by
\* from_dict with the key 'scale1' before the key 'scale0' (transform() has
\* no test of the order of the keys, and returns the keys in the order it
\* finds them).
InitialMultiscales ==
    {[kind |-> "MultiscaleSpatialImage", schema |-> "Image2DModel",
      levels |-> <<[name |-> "scale0", axes |-> CYX, shape |-> <<2, 32, 40>>,
                    scale |-> Identity],
                   [name |-> "scale1", axes |-> CYX, shape |-> <<2, 16, 10>>,
                    scale |-> Scale(<<RInt(2), RInt(4)>>, YX)]>>],
     [kind |-> "MultiscaleSpatialImage", schema |-> "Labels2DModel",
      levels |-> <<[name |-> "scale0", axes |-> YX, shape |-> <<8, 12>>,
                    scale |-> Identity]>>],
     [kind |-> "MultiscaleSpatialImage", schema |-> "Image2DModel",
      levels |-> <<[name |-> "scale1", axes |-> CYX, shape |-> <<2, 16, 10>>,
                    scale |-> Scale(<<RInt(2), RInt(4)>>, YX)],
                   [name |-> "scale0", axes |-> CYX, shape |-> <<2, 32, 40>>,
                    scale |-> Identity]>>]}

InitialPoints ==
    {[kind |-> "DaskDataFrame", axes |-> XY,
      coords |-> << <<RZero, RZero>>, <<ROne, RZero>>, <<RZero, ROne>> >>,
      columns |-> <<"a", "b", "c">>]}

InitialShapes ==
    {[kind |-> "GeoDataFrame", axes |-> XY,
      geometry |-> <<[gtype |-> "Point", coords |-> << <<ROne, RInt(2)>> >>],
                     [gtype |-> "Point", coords |-> << <<RZero, RHalf>> >>]>>,
      has_radius |-> TRUE, radius |-> <<ROne, RInt(2)>>],
     [kind |-> "GeoDataFrame", axes |-> XY,
      geometry |-> <<[gtype |-> "Polygon",
                      coords |-> << <<RZero, RZero>>, <<RInt(2), RZero>>, <<RZero, ROne>> >>]>>,
      has_radius |-> FALSE, radius |-> <<>>],
     [kind |-> "GeoDataFrame", axes |-> XY,
      geometry |-> <<[gtype |-> "Polygon",
                      coords |-> << <<RZero, RZero>>, <<RInt(2), RZero>>, <<RZero, ROne>> >>],
                     [gtype |-> "Point", coords |-> << <<ROne, RInt(2)>> >>]>>,
      has_radius |-> TRUE, radius |-> <<ROne, RInt(2)>>]}

\* An object of a type no handler is registered for.
InitialUnsupported ==
    {[kind |-> "ndarray", axes |-> YX, shape |-> <<2, 2>>]}

\* The registries an element starts with: every registry for a single-scale
\* raster, a point table and a set of shapes, the registry of one Identity
\* entry for a pyramid.
RegistriesOf(el) ==
    IF el.kind = "MultiscaleSpatialImage"
    THEN {[cs \in {"global"} |-> Identity]}
    ELSE InitialRegistries

InitialElements ==
    InitialImages \cup InitialMultiscales \cup InitialPoints \cup InitialShapes
        \cup InitialUnsupported

\* A SpatialData object: each group is the sequence of its items, in the
\* order of the dict, each with its name, its element and the registry of
\* the element.  The group labels is empty.
InitialContainers ==
    {[kind |-> "SpatialData",
      images |-> <<[name |-> "image",
                    el |-> [kind |-> "SpatialImage", schema |-> "Image2DModel",
                            axes |-> CYX, shape |-> <<2, 4, 5>>],
                    registry |-> [cs \in {"global", "physical"} |->
                        IF cs = "global" THEN Rot90 ELSE Scale(<<RInt(2), RInt(2)>>, XY)]]>>,
      labels |-> <<>>,
      points |-> <<[name |-> "points",
                    el |-> [kind |-> "DaskDataFrame", axes |-> XY,
                            coords |-> << <<RZero, RZero>>, <<ROne, RZero>>, <<RZero, ROne>> >>,
                            columns |-> <<"a", "b", "c">>],
                    registry |-> [cs \in {"global"} |-> Identity]]>>,
      shapes |-> <<[name |-> "circles",
                    el |-> [kind |-> "GeoDataFrame", axes |-> XY,
                            geometry |-> <<[gtype |-> "Point", coords |-> << <<ROne, RInt(2)>> >>]>>,
                            has_radius |-> TRUE, radius |-> <<ROne>>],
                    registry |-> [cs \in {"global"} |-> Identity]],
                   [name |-> "polygons",
                    el |-> [kind |-> "GeoDataFrame", axes |-> XY,
                            geometry |-> <<[gtype |-> "Polygon",
                                coords |-> << <<RZero, RZero>>, <<RInt(2), RZero>>, <<RZero, ROne>> >>]>>,
                            has_radius |-> FALSE, radius |-> <<>>],
                    registry |-> [cs \in {"global"} |-> Identity]]>>]}

\* ------------------------------------------------------------------------
\* State
\* ------------------------------------------------------------------------
VARIABLES
    elements,           \* the objects: id -> [el: the element's data, reg: id of its registry dict]
    regs,               \* the registry dicts: id -> (coordinate system -> transformation)
    data,               \* id of the element given to transform()
    args,               \* the arguments of the call in progress
    pc,                 \* position in transform(): idle, validate, transform, adjust, schema, aggregate, done, failed
    resolved,           \* what _validate_target_coordinate_systems returned
    transformed,        \* id of the element under construction (0: none yet)
    raster_translation, \* the raster_translation local of the handler
    requests,           \* the calls of dask_image.ndinterp.affine_transform made by this call
    warnings,           \* warnings emitted by this call
    error,              \* the exception that ended the call ("none": no exception)
    ncalls,             \* number of calls started
    called,             \* the input element and its registry as they were when the call started
    history,            \* the earlier calls of the chain: their arguments and the registry they started from
    steps               \* the steps the call in progress has run, in order

vars == <<elements, regs, data, args, pc, resolved, transformed, raster_translation,
          requests, warnings, error, ncalls, called, history, steps>>

NoArgs ==
    [transformation |-> NoTransformation, maintain_positioning |-> FALSE,
     to_coordinate_system |-> NoneValue]

InputElement == elements[data].el
InputRegistry == regs[elements[data].reg]
Kind == InputElement.kind
OutputElement == elements[transformed].el
OutputRegistry == regs[elements[transformed].reg]

\* The axes over which the registry entries of an element are compared.
ElementAxes(el) ==
    IF el.kind = "MultiscaleSpatialImage" THEN el.levels[1].axes ELSE el.axes

\* The object a handler builds is a new one (schema.parse, from_dict, copy()).
NewElementId(ids, input) == MaxOf(ids) + 1
\* Variant of NewRegistryId: the new object shares the registry dict of the input.
ReusedRegistryId(ids, input_reg) == input_reg

\* The registry dict of the new object is a new dict ({DEFAULT_COORDINATE_SYSTEM: Identity()}).
NewRegistryId(ids, input_reg) == MaxOf(ids) + 1

\* Variant of PlaceholderRegistry: the new object starts without a registry
\* entry.
PlaceholderRegistryEmpty == EmptyRegistry

\* transformed.attrs[TRANSFORM_KEY] = {DEFAULT_COORDINATE_SYSTEM: Identity()}:
\* the registry a handler gives the new object before _adjust_transformations
\* (for a SpatialImage it is the default of schema.parse).
PlaceholderRegistry == SetTransformation(EmptyRegistry, Identity, DEFAULT_COORDINATE_SYSTEM)

\* The new object, holding el and anchored by the placeholder registry.
Allocate(el) ==
    LET id == NewElementId(DOMAIN elements, data)
        rid == NewRegistryId(DOMAIN regs, elements[data].reg)
    IN  /\ elements' = [k \in (DOMAIN elements) \cup {id} |->
                            IF k = id THEN [el |-> el, reg |-> rid] ELSE elements[k]]
        /\ regs' = [k \in (DOMAIN regs) \cup {rid} |->
                            IF k = rid THEN PlaceholderRegistry ELSE regs[k]]
        /\ transformed' = id

Init ==
    /\ \/ \E el \in InitialElements : \E r \in RegistriesOf(el) :
            /\ elements = [k \in {1} |-> [el |-> el, reg |-> 1]]
            /\ regs = [k \in {1} |-> r]
            /\ called = [el |-> el, registry |-> r]
       \/ \E el \in InitialContainers :
            /\ elements = [k \in {1} |-> [el |-> el, reg |-> 1]]
            /\ regs = [k \in {1} |-> EmptyRegistry]
            /\ called = [el |-> el, registry |-> EmptyRegistry]
    /\ data = 1
    /\ args = NoArgs
    /\ pc = "idle"
    /\ resolved = Raised("none")
    /\ transformed = 0
    /\ raster_translation = NoTransformation
    /\ requests = <<>>
    /\ warnings = {}
    /\ error = "none"
    /\ ncalls = 0
    /\ history = <<>>
    /\ steps = <<>>

\* ------------------------------------------------------------------------
\* transform(data, transformation, maintain_positioning, to_coordinate_system)
\* ------------------------------------------------------------------------
\* Variant of Dispatch that sends every object to the element handlers.
DispatchWithoutFallback(kind) == IF kind = "SpatialData" THEN "aggregate" ELSE "validate"

\* singledispatch on type(data): where the call continues.  An object of a
\* type without a handler reaches the body of the generic function, which
\* raises.
Dispatch(kind) ==
    IF kind \in ElementKinds THEN "validate"
    ELSE IF kind = "SpatialData" THEN "aggregate"
    ELSE "failed"

\* The caller enters transform() on the element.
Call ==
    /\ pc = "idle"
    /\ ncalls < MaxCalls
    /\ \E t \in ArgTransformations \cup {NoTransformation},
          mp \in BOOLEAN,
          cs \in ArgCoordinateSystems \cup {NoneValue} :
            args' = [transformation |-> t, maintain_positioning |-> mp,
                     to_coordinate_system |-> cs]
    /\ called' = [el |-> InputElement, registry |-> InputRegistry]
    /\ ncalls' = ncalls + 1
    /\ pc' = Dispatch(Kind)
    /\ error' = IF Dispatch(Kind) = "failed" THEN "RuntimeError: Cannot transform" ELSE error
    /\ steps' = <<>>
    /\ UNCHANGED <<elements, regs, data, resolved, transformed, raster_translation,
                   requests, warnings, history>>

\* transformation, to_coordinate_system = _validate_target_coordinate_systems(...)
Validate ==
    /\ pc = "validate"
    /\ \E r \in {ValidateTargetCoordinateSystems(InputRegistry, args.transformation,
                    args.maintain_positioning, args.to_coordinate_system)} :
           /\ resolved' = r
           /\ pc' = IF r.ok THEN "transform" ELSE "failed"
           /\ error' = r.error
           /\ warnings' = IF r.warned THEN {"ERROR_MSG_AFTER_0_0_15"} ELSE {}
    /\ steps' = Append(steps, "resolve")
    /\ UNCHANGED <<elements, regs, data, args, transformed, raster_translation, requests,
                   ncalls, called, history>>

\* The SpatialImage handler up to the call of _adjust_transformations.
TransformSpatialImage ==
    /\ pc = "transform"
    /\ Kind = "SpatialImage"
    /\ \E r \in {TransformRaster(InputElement.shape, InputElement.axes,
                                resolved.transformation, SpatialImageKwargs)} :
           /\ Allocate([InputElement EXCEPT !.shape = r.shape])
           /\ requests' = <<r.request>>
           /\ raster_translation' = r.raster_translation
    /\ pc' = "adjust"
    /\ steps' = Append(steps, "transform")
    /\ UNCHANGED <<data, args, resolved, warnings, error, ncalls, called, history>>

\* The MultiscaleSpatialImage handler up to the call of _adjust_transformations.
TransformMultiscaleSpatialImage ==
    /\ pc = "transform"
    /\ Kind = "MultiscaleSpatialImage"
    /\ IF ~MultiscaleSchemaSupported(InputElement.schema)
       THEN /\ pc' = "failed"
            /\ error' = "ValueError: schema not supported"
            /\ UNCHANGED <<elements, regs, transformed, requests, raster_translation>>
       ELSE \E rs \in {TransformLevels(InputElement.levels, resolved.transformation,
                                         MultiscaleKwargs(InputElement.schema))} :
                /\ Allocate([InputElement EXCEPT !.levels = NewLevels(InputElement.levels, rs)])
                /\ requests' = [i \in 1..Len(rs) |-> rs[i].request]
                /\ raster_translation' = MultiscaleRasterTranslation(rs)
                /\ pc' = "adjust"
                /\ UNCHANGED error
    /\ steps' = Append(steps, "transform")
    /\ UNCHANGED <<data, args, resolved, warnings, ncalls, called, history>>

\* The DaskDataFrame handler up to the call of _adjust_transformations.
TransformDaskDataFrame ==
    /\ pc = "transform"
    /\ Kind = "DaskDataFrame"
    /\ \E r \in {TransformPoints(InputElement, resolved.transformation)} :
           Allocate([InputElement EXCEPT !.coords = r.coords, !.columns = r.columns])
    /\ pc' = "adjust"
    /\ steps' = Append(steps, "transform")
    /\ UNCHANGED <<data, args, resolved, raster_translation, requests, warnings, error,
                   ncalls, called, history>>

\* The GeoDataFrame handler up to the call of _adjust_transformations.
TransformGeoDataFrame ==
    /\ pc = "transform"
    /\ Kind = "GeoDataFrame"
    /\ \E r \in {TransformShapes(InputElement, resolved.transformation)} :
           /\ Allocate([InputElement EXCEPT !.geometry = r.geometry, !.radius = r.radius])
           /\ warnings' = IF r.warned THEN warnings \cup {"not isotropic"} ELSE warnings
    /\ pc' = "adjust"
    /\ steps' = Append(steps, "transform")
    /\ UNCHANGED <<data, args, resolved, raster_translation, requests, error, ncalls,
                   called, history>>

\* old_transformations = get_transformation(data, get_all=True), then
\* _adjust_transformations(transformed, old_transformations, transformation,
\*                         raster_translation=..., maintain_positioning=...)
Adjust ==
    /\ pc = "adjust"
    /\ \E r \in {AdjustTransformations(OutputElement.kind, OutputRegistry,
                    GetAllTransformations(InputRegistry),
                    resolved.transformation, raster_translation,
                    args.maintain_positioning,
                    AdjustTargetArgument(resolved.to_coordinate_system))} :
           /\ regs' = [regs EXCEPT ![elements[transformed].reg] = r.registry]
           /\ pc' = IF r.ok THEN "schema" ELSE "failed"
           /\ error' = r.error
    /\ steps' = Append(steps, "adjust")
    /\ UNCHANGED <<elements, data, args, resolved, transformed, raster_translation,
                   requests, warnings, ncalls, called, history>>

\* The schema collaborator: the registry of a valid element is not empty.
SchemaValid(el, d) == DOMAIN d # {}

\* schema().validate(transformed_data); return transformed_data
ValidateAndReturn ==
    /\ pc = "schema"
    /\ IF SchemaValid(OutputElement, OutputRegistry)
       THEN /\ pc' = "done"
            /\ UNCHANGED error
       ELSE /\ pc' = "failed"
            /\ error' = "SchemaValidationError"
    /\ steps' = Append(steps, "validate")
    /\ UNCHANGED <<elements, regs, data, args, resolved, transformed, raster_translation,
                   requests, warnings, ncalls, called, history>>

\* The caller gives the returned element to the next call; the objects of
\* the finished call are no longer referenced.
Chain ==
    /\ pc = "done"
    /\ ncalls < MaxCalls
    /\ history' = Append(history, [args |-> args, old |-> called.registry])
    /\ elements' = [k \in {1} |-> [el |-> OutputElement, reg |-> 1]]
    /\ regs' = [k \in {1} |-> OutputRegistry]
    /\ called' = [el |-> OutputElement, registry |-> OutputRegistry]
    /\ data' = 1
    /\ transformed' = 0
    /\ args' = NoArgs
    /\ resolved' = Raised("none")
    /\ raster_translation' = NoTransformation
    /\ requests' = <<>>
    /\ warnings' = {}
    /\ steps' = <<>>
    /\ pc' = "idle"
    /\ UNCHANGED <<error, ncalls>>

\* ------------------------------------------------------------------------
\* The SpatialData handler
\* ------------------------------------------------------------------------
\* A call of transform() on an element that raises, after the requests and
\* the warnings it made.
Failure(e, el, d, reqs, warns) ==
    [ok |-> FALSE, error |-> e, el |-> el, registry |-> d, requests |-> reqs,
     warnings |-> warns]

\* The handler of the kind of el up to the call of _adjust_transformations:
\* the new element, the raster_translation, the requests made of the
\* resampling and whether the radius warning was logged.
HandlerResult(el, transformation) ==
    CASE el.kind = "SpatialImage" ->
            Bind(TransformRaster(el.shape, el.axes, transformation, SpatialImageKwargs),
                 LAMBDA r : [ok |-> TRUE, error |-> "none",
                             el |-> [el EXCEPT !.shape = r.shape],
                             raster_translation |-> r.raster_translation,
                             requests |-> <<r.request>>, warned |-> FALSE])
      [] el.kind = "MultiscaleSpatialImage" ->
            IF ~MultiscaleSchemaSupported(el.schema)
            THEN [ok |-> FALSE, error |-> "ValueError: schema not supported", el |-> el,
                  raster_translation |-> NoTransformation, requests |-> <<>>,
                  warned |-> FALSE]
            ELSE Bind(TransformLevels(el.levels, transformation, MultiscaleKwargs(el.schema)),
                      LAMBDA rs : [ok |-> TRUE, error |-> "none",
                                   el |-> [el EXCEPT !.levels = NewLevels(el.levels, rs)],
                                   raster_translation |-> MultiscaleRasterTranslation(rs),
                                   requests |-> MkSeq(Len(rs), LAMBDA i : rs[i].request),
                                   warned |-> FALSE])
      [] el.kind = "DaskDataFrame" ->
            Bind(TransformPoints(el, transformation),
                 LAMBDA r : [ok |-> TRUE, error |-> "none",
                             el |-> [el EXCEPT !.coords = r.coords, !.columns = r.columns],
                             raster_translation |-> NoTransformation,
                             requests |-> <<>>, warned |-> FALSE])
      [] el.kind = "GeoDataFrame" ->
            Bind(TransformShapes(el, transformation),
                 LAMBDA r : [ok |-> TRUE, error |-> "none",
                             el |-> [el EXCEPT !.geometry = r.geometry, !.radius = r.radius],
                             raster_translation |-> NoTransformation,
                             requests |-> <<>>, warned |-> r.warned])

\* transform(v, transformation, to_coordinate_system=..., maintain_positioning=...)
\* on one element v of the container, whose registry is d: what the call
\* returns, or the exception it raises, with the requests it makes of the
\* resampling and the warnings it emits.
TransformElement(el, d, transformation, maintain_positioning, to_coordinate_system) ==
    IF Dispatch(el.kind) # "validate"
    THEN Failure("RuntimeError: Cannot transform", el, d, <<>>, {})
    ELSE Bind(ValidateTargetCoordinateSystems(d, transformation, maintain_positioning,
                                              to_coordinate_system), LAMBDA r :
         IF ~r.ok THEN Failure(r.error, el, d, <<>>, {})
         ELSE Bind(HandlerResult(el, r.transformation), LAMBDA h :
              Bind((IF r.warned THEN {"ERROR_MSG_AFTER_0_0_15"} ELSE {})
                     \cup (IF h.warned THEN {"not isotropic"} ELSE {}), LAMBDA warns :
              IF ~h.ok THEN Failure(h.error, el, d, h.requests, warns)
              ELSE Bind(AdjustTransformations(el.kind, PlaceholderRegistry,
                            GetAllTransformations(d), r.transformation,
                            h.raster_translation, maintain_positioning,
                            AdjustTargetArgument(r.to_coordinate_system)), LAMBDA a :
                   IF ~a.ok THEN Failure(a.error, el, d, h.requests, warns)
                   ELSE IF ~SchemaValid(h.el, a.registry)
                   THEN Failure("SchemaValidationError", el, d, h.requests, warns)
                   ELSE [ok |-> TRUE, error |-> "none", el |-> h.el,
                         registry |-> a.registry, requests |-> h.requests,
                         warnings |-> warns]))))

\* for element_type in ["images", "labels", "points", "shapes"]
ElementTypes == <<"images", "labels", "points", "shapes">>

\* Variant of TransformGroup that calls transform() without the arguments of
\* the caller, with the identity.
TransformGroupWithIdentity(d, transformation, maintain_positioning, to_coordinate_system) ==
    MkSeq(Len(d), LAMBDA k :
        TransformElement(d[k].el, d[k].registry, Identity, maintain_positioning, NoneValue))

\* for k, v in d.items(): new_elements[element_type][k] = transform(v, ...)
TransformGroup(d, transformation, maintain_positioning, to_coordinate_system) ==
    MkSeq(Len(d), LAMBDA k :
        TransformElement(d[k].el, d[k].registry, transformation, maintain_positioning,
                         to_coordinate_system))

\* The results of the calls of transform() in the order of the loops.
InLoopOrder(results) ==
    results["images"] \o results["labels"] \o results["points"] \o results["shapes"]

\* The exception that ends the loops: that of the first call that raises.
FirstError(results) ==
    LET flat == InLoopOrder(results)
        first == CHOOSE i \in 1..Len(flat) :
                    ~flat[i].ok /\ \A j \in 1..(i - 1) : flat[j].ok
    IN  flat[first].error

\* The calls of transform() the loops make: every call up to the first that
\* raises.
CallsMade(results) ==
    LET flat == InLoopOrder(results)
    IN  SelectSeq(MkSeq(Len(flat), LAMBDA i : [call |-> flat[i],
                            made |-> \A j \in 1..(i - 1) : flat[j].ok]),
                  LAMBDA c : c.made)

\* The requests the calls made of the resampling, in order, and the warnings
\* they emitted.
RECURSIVE RequestsOfCalls(_)
RequestsOfCalls(calls) ==
    IF Len(calls) = 0
    THEN <<>>
    ELSE calls[1].call.requests \o RequestsOfCalls(Tail(calls))
WarningsOfCalls(calls) == UNION {calls[i].call.warnings : i \in 1..Len(calls)}

\* new_elements: an entry for each element type whose group is not empty,
\* holding the transformed elements under the names of the input.
NewElements(container, results) ==
    [g \in {ElementTypes[i] : i \in {j \in 1..Len(ElementTypes) :
                                        Len(container[ElementTypes[j]]) > 0}} |->
        MkSeq(Len(results[g]), LAMBDA k :
            [name |-> container[g][k].name, el |-> results[g][k].el,
             registry |-> results[g][k].registry])]

\* SpatialData(**new_elements): a group not given is empty.
SpatialDataFromGroups(new_elements) ==
    [g \in {"images", "labels", "points", "shapes"} |->
        IF g \in DOMAIN new_elements THEN new_elements[g] ELSE <<>>]
    @@ [kind |-> "SpatialData"]

\* SpatialData.transform_to_coordinate_system(target): the elements that have
\* the target in their registry, each transformed to the target and
\* registered under the target alone.
TransformToCoordinateSystem(container, target) ==
    LET filtered == [g \in {"images", "labels", "points", "shapes"} |->
                        SelectSeq(container[g],
                                  LAMBDA item : HasTransformation(item.registry, target))]
    IN  Bind([g \in DOMAIN filtered |->
                TransformGroup(filtered[g], NoTransformation, FALSE, target)], LAMBDA results :
            IF \E i \in 1..Len(InLoopOrder(results)) : ~InLoopOrder(results)[i].ok
            THEN [ok |-> FALSE, error |-> FirstError(results), container |-> container,
                  requests |-> RequestsOfCalls(CallsMade(results)),
                  warnings |-> WarningsOfCalls(CallsMade(results))]
            ELSE [ok |-> TRUE, error |-> "none",
                  requests |-> RequestsOfCalls(CallsMade(results)),
                  warnings |-> WarningsOfCalls(CallsMade(results)),
                  container |->
                    SpatialDataFromGroups([g \in DOMAIN filtered |->
                        MkSeq(Len(results[g]), LAMBDA k :
                            [name |-> filtered[g][k].name, el |-> results[g][k].el,
                             registry |-> [cs \in {target} |->
                                results[g][k].registry[FirstKey(results[g][k].registry)]]])])])

\* The body of the SpatialData handler: the container it returns, or the
\* exception it raises, with the requests and the warnings of the calls of
\* transform() it made.
TransformSpatialDataResult(container, transformation, maintain_positioning, to_coordinate_system) ==
    IF ~maintain_positioning
    THEN IF transformation = NoTransformation /\ to_coordinate_system # NoneValue
         THEN TransformToCoordinateSystem(container, to_coordinate_system)
         ELSE [ok |-> FALSE, error |-> "RuntimeError: ERROR_MSG_AFTER_0_0_15",
               container |-> container, requests |-> <<>>, warnings |-> {}]
    ELSE IF (transformation = NoTransformation) = (to_coordinate_system = NoneValue)
    THEN [ok |-> FALSE,
          error |-> "AssertionError: only one of transformation and to_coordinate_system can be None",
          container |-> container, requests |-> <<>>, warnings |-> {}]
    ELSE Bind([g \in {"images", "labels", "points", "shapes"} |->
                TransformGroup(container[g], transformation, maintain_positioning,
                               to_coordinate_system)], LAMBDA results :
            IF \E i \in 1..Len(InLoopOrder(results)) : ~InLoopOrder(results)[i].ok
            THEN [ok |-> FALSE, error |-> FirstError(results), container |-> container,
                  requests |-> RequestsOfCalls(CallsMade(results)),
                  warnings |-> WarningsOfCalls(CallsMade(results))]
            ELSE [ok |-> TRUE, error |-> "none",
                  requests |-> RequestsOfCalls(CallsMade(results)),
                  warnings |-> WarningsOfCalls(CallsMade(results)),
                  container |-> SpatialDataFromGroups(NewElements(container, results))])

\* The SpatialData handler.
TransformSpatialData ==
    /\ pc = "aggregate"
    /\ \E r \in {TransformSpatialDataResult(InputElement, args.transformation,
                        args.maintain_positioning, args.to_coordinate_system)} :
           /\ IF r.ok
              THEN LET id == NewElementId(DOMAIN elements, data)
                       rid == NewRegistryId(DOMAIN regs, elements[data].reg)
                   IN  /\ elements' = [k \in (DOMAIN elements) \cup {id} |->
                               IF k = id THEN [el |-> r.container, reg |-> rid]
                               ELSE elements[k]]
                       /\ regs' = [k \in (DOMAIN regs) \cup {rid} |->
                               IF k = rid THEN EmptyRegistry ELSE regs[k]]
                       /\ transformed' = id
                       /\ pc' = "done"
                       /\ UNCHANGED error
              ELSE /\ pc' = "failed"
                   /\ error' = r.error
                   /\ UNCHANGED <<elements, regs, transformed>>
           /\ requests' = r.requests
           /\ warnings' = warnings \cup r.warnings
    /\ UNCHANGED <<data, args, resolved, raster_translation, ncalls, called, history, steps>>

Next ==
    \/ Call
    \/ TransformSpatialData
    \/ Validate
    \/ TransformSpatialImage
    \/ TransformMultiscaleSpatialImage
    \/ TransformDaskDataFrame
    \/ TransformGeoDataFrame
    \/ Adjust
    \/ ValidateAndReturn
    \/ Chain

Spec == Init /\ [][Next]_vars

\* ------------------------------------------------------------------------
\* Properties
\* ------------------------------------------------------------------------
Returned == pc = "done"
\* _validate_target_coordinate_systems has been run by the call in progress.
PastValidate == Len(steps) > 0
\* Equality of two numbers up to the rounding of a few double operations:
\* they differ by less than 2^-30.
RoundingTolerance == NumOfDouble(Dyadic(FALSE, <<1>>, -30))
EqualUpToRounding(a, b) == a = b \/ RLess(RAbs(RSub(a, b)), RoundingTolerance)
SameMatrixUpToRounding(A, B) ==
    /\ Len(A) = Len(B)
    /\ \A i \in 1..Len(A) :
        /\ Len(A[i]) = Len(B[i])
        /\ \A j \in 1..Len(A[i]) : EqualUpToRounding(A[i][j], B[i][j])
\* Two registries have the same names and, under each name, the same affine
\* matrix up to rounding.
SameMatrices(d1, d2, axes) ==
    /\ DOMAIN d1 = DOMAIN d2
    /\ \A cs \in DOMAIN d1 :
        SameMatrixUpToRounding(ToAffineMatrix(d1[cs], axes), ToAffineMatrix(d2[cs], axes))
TargetOnly ==
    args.transformation = NoTransformation /\ args.to_coordinate_system # NoneValue
TransformationOnly ==
    args.transformation # NoTransformation /\ args.to_coordinate_system = NoneValue

\* C1: after transform(element, to_coordinate_system=X, maintain_positioning=False)
\* with X in the registry of the element, the registry of the returned element
\* has exactly one entry and its key is X.
C1_SingleEntryKeyedByTarget ==
    (/\ Returned
     /\ ~args.maintain_positioning
     /\ TargetOnly
     /\ args.to_coordinate_system \in DOMAIN called.registry)
    => DOMAIN OutputRegistry = {args.to_coordinate_system}

\* The to_prepend of the call in progress, by kind, for maintain_positioning=True.
C2_ExpectedToPrepend ==
    IF Kind \in RasterKinds
    THEN Sequence(<<raster_translation, Inverse(resolved.transformation)>>)
    ELSE Inverse(resolved.transformation)

\* C2: with maintain_positioning=True the returned element has the coordinate
\* systems of the input, each mapped to Sequence([to_prepend, old transformation]),
\* and the names survive any chain of such calls.
C2_MaintainPositioningKeepsNames ==
    (Returned /\ args.maintain_positioning)
    => /\ DOMAIN OutputRegistry = DOMAIN called.registry
       /\ \A cs \in DOMAIN called.registry :
            OutputRegistry[cs] = Sequence(<<C2_ExpectedToPrepend, called.registry[cs]>>)
       /\ (\A i \in 1..Len(history) : history[i].args.maintain_positioning)
            => \A i \in 1..Len(history) : DOMAIN OutputRegistry = DOMAIN history[i].old
C2_Witness ==
    /\ Returned
    /\ args.maintain_positioning
    /\ Len(history) = 1
    /\ history[1].args.maintain_positioning
    /\ Cardinality(DOMAIN OutputRegistry) = 2
    /\ Kind \in RasterKinds

\* C3: a call never changes its input: at every point of the call, however it
\* ends, the input element and its registry are as they were when the call
\* started, and the new element and its registry are other objects.
C3_InputUnchanged ==
    (pc # "idle")
    => /\ InputElement = called.el
       /\ InputRegistry = called.registry
       /\ transformed # 0 =>
            /\ transformed # data
            /\ elements[transformed].reg # elements[data].reg
C3_Witness ==
    /\ Returned
    /\ OutputElement # InputElement
    /\ DOMAIN OutputRegistry # DOMAIN InputRegistry
    /\ InputRegistry = called.registry

\* C4: maintain_positioning=False, no transformation, target X: the resolver
\* returns (registry[X], X) when X is in the registry, and otherwise the call
\* fails before anything is transformed.
C4_TargetLookup ==
    (PastValidate /\ ~args.maintain_positioning /\ TargetOnly)
    => IF args.to_coordinate_system \in DOMAIN called.registry
       THEN /\ resolved.ok
            /\ resolved.transformation = called.registry[args.to_coordinate_system]
            /\ resolved.to_coordinate_system = args.to_coordinate_system
       ELSE /\ pc = "failed"
            /\ error # "none"
            /\ transformed = 0
            /\ requests = <<>>
            /\ DOMAIN elements = {data}
C4_Witness ==
    /\ pc = "failed"
    /\ ~args.maintain_positioning
    /\ TargetOnly
    /\ args.to_coordinate_system \notin DOMAIN called.registry
    /\ Len(history) = 1
    /\ ~history[1].args.maintain_positioning
    /\ history[1].args.to_coordinate_system = "physical"
    /\ Cardinality(DOMAIN history[1].old) = 2

\* The one combination in which an explicit transformation is accepted.
C5_ShimApplies ==
    /\ TransformationOnly
    /\ Cardinality(DOMAIN called.registry) = 1
    /\ \A k \in DOMAIN called.registry : called.registry[k] = args.transformation

\* C5: maintain_positioning=False with an explicit transformation succeeds only
\* when no target is given and the registry has one entry equal to the
\* transformation (it returns the transformation and the name of the entry);
\* both given, neither given, more entries or another transformation fail with
\* the RuntimeError of ERROR_MSG_AFTER_0_0_15.
C5_ExplicitTransformation ==
    (PastValidate /\ ~args.maintain_positioning /\ ~TargetOnly)
    => IF C5_ShimApplies
       THEN /\ resolved.ok
            /\ resolved.transformation = args.transformation
            /\ DOMAIN called.registry = {resolved.to_coordinate_system}
       ELSE /\ pc = "failed"
            /\ error = "RuntimeError: ERROR_MSG_AFTER_0_0_15"
            /\ transformed = 0
C5_Witness ==
    /\ Returned
    /\ ~args.maintain_positioning
    /\ C5_ShimApplies
    /\ args.transformation.type = "Translation"
    /\ resolved.to_coordinate_system = "physical"

\* C6: maintain_positioning=True: both or neither of transformation and target
\* fail with the AssertionError; a transformation alone is returned with a None
\* target; a target alone returns the registry's entry, and fails when absent.
C6_MaintainResolver ==
    (PastValidate /\ args.maintain_positioning)
    => IF (args.transformation = NoTransformation) = (args.to_coordinate_system = NoneValue)
       THEN /\ pc = "failed"
            /\ error = "AssertionError: only one of transformation and to_coordinate_system can be None"
       ELSE IF args.transformation # NoTransformation
       THEN /\ resolved.ok
            /\ resolved.transformation = args.transformation
            /\ resolved.to_coordinate_system = NoneValue
       ELSE IF args.to_coordinate_system \in DOMAIN called.registry
       THEN /\ resolved.ok
            /\ resolved.transformation = called.registry[args.to_coordinate_system]
       ELSE /\ pc = "failed"
            /\ error # "none"
C6_Witness ==
    /\ Returned
    /\ args.maintain_positioning
    /\ TargetOnly
    /\ args.to_coordinate_system \in DOMAIN called.registry
    /\ resolved.transformation = called.registry[args.to_coordinate_system]
    /\ resolved.transformation.type = "Scale"
    /\ resolved.to_coordinate_system = NoneValue

\* The call in progress undoes the previous call of the chain: both with
\* maintain_positioning=True, the previous one with a transformation t and this
\* one with t.inverse().
RoundTrip ==
    /\ Returned
    /\ Len(history) >= 1
    /\ history[Len(history)].args.maintain_positioning
    /\ history[Len(history)].args.transformation # NoTransformation
    /\ args.maintain_positioning
    /\ args.transformation = Inverse(history[Len(history)].args.transformation)
\* The registry the round trip started from.
RoundTripOrigin == history[Len(history)].old
\* The first transformation of the round trip.
RoundTripTransformation == history[Len(history)].args.transformation

\* C7 as stated: after transform(transform(e, t, maintain_positioning=True),
\* t.inverse(), maintain_positioning=True) the registry has the names of the
\* original and each entry equals the original entry as an affine matrix, for
\* every kind of element.
C7_RoundTripAllKinds ==
    RoundTrip => SameMatrices(OutputRegistry, RoundTripOrigin, ElementAxes(OutputElement))

\* C7 amended: the round trip gives back the names of the original for every
\* kind of element, and gives back each entry (as an affine matrix) for points
\* and shapes; the entries of a raster are not given back in general.
C7_RoundTripNamesAndTables ==
    RoundTrip
    => /\ DOMAIN OutputRegistry = DOMAIN RoundTripOrigin
       /\ Kind \in TableKinds
            => SameMatrices(OutputRegistry, RoundTripOrigin, ElementAxes(OutputElement))
C7_Witness ==
    /\ RoundTrip
    /\ Kind = "DaskDataFrame"
    /\ RoundTripTransformation = Rot90
    /\ Cardinality(DOMAIN RoundTripOrigin) = 2
    /\ SameMatrices(OutputRegistry, RoundTripOrigin, XY)

\* C8: transforming a point table by Identity leaves every coordinate as it
\* was; with maintain_positioning=False the registry of the result is a single
\* Identity entry, with maintain_positioning=True it has the names of the input
\* and each entry equals the old one as an affine map.
C8_IdentityOnPoints ==
    (Returned /\ Kind = "DaskDataFrame" /\ resolved.transformation = Identity)
    => /\ OutputElement.coords = called.el.coords
       /\ IF args.maintain_positioning
          THEN SameMatrices(OutputRegistry, called.registry, XY)
          ELSE /\ Cardinality(DOMAIN OutputRegistry) = 1
               /\ \A cs \in DOMAIN OutputRegistry : OutputRegistry[cs] = Identity
C8_Witness ==
    /\ Returned
    /\ Kind = "DaskDataFrame"
    /\ resolved.transformation = Identity
    /\ args.maintain_positioning
    /\ Cardinality(DOMAIN called.registry) = 2
    /\ OutputRegistry["global"] = Sequence(<<Identity, Rot90>>)

\* The shapes of the arrays of a raster element, one per level.
RasterShapes(el) ==
    IF el.kind = "MultiscaleSpatialImage"
    THEN [i \in 1..Len(el.levels) |-> el.levels[i].shape]
    ELSE <<el.shape>>

\* C9: for a raster, with or without a channel axis, and a pure translation t,
\* the resampled array is asked for and returned with the shape of the input,
\* and raster_translation equals t as an affine map.
C9_TranslationKeepsShape ==
    (/\ pc \in {"adjust", "schema", "done"}
     /\ Kind \in RasterKinds
     /\ resolved.transformation.type = "Translation")
    => /\ RasterShapes(OutputElement) = RasterShapes(called.el)
       /\ \A i \in 1..Len(requests) : requests[i].output_shape = RasterShapes(called.el)[i]
       /\ ToAffineMatrix(raster_translation, ElementAxes(called.el))
            = ToAffineMatrix(resolved.transformation, ElementAxes(called.el))

\* C10: the transformed point table has the rows of the input in the same
\* order, each with the coordinates the matrix of the transformation gives for
\* the input row, and the values of the other columns are kept; Scale([2, 2])
\* maps (0,0), (1,0), (0,1) to (0,0), (2,0), (0,2).
C10_PointsTransformed ==
    (Returned /\ Kind = "DaskDataFrame")
    => LET m == ToAffineMatrix(resolved.transformation, XY)
           in == called.el.coords
           out == OutputElement.coords
       IN  /\ Len(out) = Len(in)
           /\ \A r \in 1..Len(in) :
                /\ Len(out[r]) = Len(in[r])
                /\ out[r][1] = RAdd(RAdd(RMul(m[1][1], in[r][1]), RMul(m[1][2], in[r][2])), m[1][3])
                /\ out[r][2] = RAdd(RAdd(RMul(m[2][1], in[r][1]), RMul(m[2][2], in[r][2])), m[2][3])
           /\ OutputElement.columns = called.el.columns
           /\ (/\ resolved.transformation = Scale(<<RInt(2), RInt(2)>>, XY)
               /\ in = << <<RZero, RZero>>, <<ROne, RZero>>, <<RZero, ROne>> >>)
                => out = << <<RZero, RZero>>, <<RInt(2), RZero>>, <<RZero, RInt(2)>> >>
C10_Witness ==
    /\ Returned
    /\ Kind = "DaskDataFrame"
    /\ ~args.maintain_positioning
    /\ args.to_coordinate_system = "physical"
    /\ resolved.transformation = Scale(<<RInt(2), RInt(2)>>, XY)
    /\ OutputElement.coords = << <<RZero, RZero>>, <<RInt(2), RZero>>, <<RZero, RInt(2)>> >>
    /\ OutputElement.columns = <<"a", "b", "c">>

\* The registry the Notes of transform() describe for a translation t with
\* maintain_positioning=True: t prepended to each transformation of the input.
TranslationPrepended(t, old_transformations) ==
    [cs \in DOMAIN old_transformations |-> Sequence(<<t, old_transformations[cs]>>)]

\* C11: for a raster and a pure translation t, transform with
\* maintain_positioning=True leaves the pixel data where it is (same shapes,
\* resampled with the identity matrix) and gives every coordinate system of
\* the input an entry equivalent to Sequence([t, old entry]).
C11_TranslationPrependedToEntries ==
    (/\ Returned
     /\ Kind \in RasterKinds
     /\ args.maintain_positioning
     /\ resolved.transformation.type = "Translation")
    => /\ RasterShapes(OutputElement) = RasterShapes(called.el)
       /\ \A i \in 1..Len(requests) :
            requests[i].matrix = IdMat(Len(ElementAxes(called.el)) + 1)
       /\ SameMatrices(OutputRegistry,
                       TranslationPrepended(resolved.transformation, called.registry),
                       ElementAxes(called.el))

\* The linear part of a transformation over the spatial axes: its matrix with
\* the translation column cleared.
LinearPart(t, axes) ==
    LET sp == SpatialAxes(axes)
        m == ToAffineMatrix(t, sp)
        n == Len(sp) + 1
    IN  Affine(MkSeq(n, LAMBDA i : MkSeq(n, LAMBDA j :
                    IF j = n /\ i < n THEN RZero ELSE m[i][j])), sp)

\* The translation part of a transformation over the axes.
TranslationPart(t, axes) ==
    LET m == ToAffineMatrix(t, axes)
    IN  Translation(MkSeq(Len(axes), LAMBDA i : m[i][Len(axes) + 1]), axes)

\* The array (level i of a pyramid) a raster call resampled, and the
\* transformation it was resampled with.
ResampledInput(i) ==
    IF Kind = "MultiscaleSpatialImage"
    THEN [shape |-> called.el.levels[i].shape, axes |-> called.el.levels[i].axes,
          transformation |->
            IF called.el.levels[i].name = "scale0" THEN resolved.transformation
            ELSE Sequence(<<called.el.levels[i].scale, resolved.transformation,
                            Inverse(called.el.levels[i].scale)>>)]
    ELSE [shape |-> called.el.shape, axes |-> called.el.axes,
          transformation |-> resolved.transformation]

\* C12: a raster is resampled as by the linear part of the transformation
\* alone: the output shape and the resampling matrix are those the same
\* transformation without its translation part yields, and the translation
\* part is found in raster_translation only.
C12_OnlyLinearPartResampled ==
    (pc \in {"adjust", "schema", "done"} /\ Kind \in RasterKinds)
    => /\ \A i \in 1..Len(requests) :
            LET in == ResampledInput(i)
                linear == TransformRaster(in.shape, in.axes,
                              LinearPart(in.transformation, in.axes), requests[i].kwargs)
            IN  /\ requests[i].output_shape = linear.request.output_shape
                /\ requests[i].matrix = linear.request.matrix
       /\ LET in == ResampledInput(1)
              linear == TransformRaster(in.shape, in.axes,
                            LinearPart(in.transformation, in.axes), requests[1].kwargs)
          IN  ToAffineMatrix(raster_translation, in.axes)
                = ToAffineMatrix(Sequence(<<linear.raster_translation,
                                            TranslationPart(in.transformation, in.axes)>>),
                                 in.axes)

\* The steps of a handler of a single element, in the order of its body.
HandlerSteps == <<"resolve", "transform", "adjust", "validate">>
IsPrefix(s, t) == Len(s) <= Len(t) /\ SubSeq(t, 1, Len(s)) = s

\* C13: a call on a single element runs the resolver, the transformer of the
\* kind, the adjuster and the schema validation in that order, each at most
\* once; it returns only after all four have run and the validation passed;
\* and a call on an object of an unsupported type fails before any step.
C13_StepsInOrder ==
    /\ IsPrefix(steps, HandlerSteps)
    /\ (Returned /\ Kind \in ElementKinds)
        => /\ steps = HandlerSteps
           /\ SchemaValid(OutputElement, OutputRegistry)
           /\ error = "none"
    /\ (pc # "idle" /\ Kind \notin ElementKinds \cup {"SpatialData"})
        => /\ pc = "failed"
           /\ error = "RuntimeError: Cannot transform"
           /\ steps = <<>>
           /\ transformed = 0
           /\ requests = <<>>
           /\ DOMAIN elements = {data}
C13_Witness ==
    /\ Returned
    /\ Kind = "MultiscaleSpatialImage"
    /\ steps = <<"resolve", "transform", "adjust", "validate">>
    /\ Len(requests) = 2
    /\ SchemaValid(OutputElement, OutputRegistry)
    /\ ncalls = 2

\* transform(item, same arguments) for item k of group g of the container
\* the call in progress was given.
ApplyToItem(g, k) ==
    TransformElement(called.el[g][k].el, called.el[g][k].registry, args.transformation,
                     args.maintain_positioning, args.to_coordinate_system)
GroupNames == {"images", "labels", "points", "shapes"}

\* C14: transform() on a SpatialData object with maintain_positioning=True
\* and exactly one of transformation and to_coordinate_system returns a
\* container whose groups images, labels, points and shapes hold the names
\* of the input groups, each with transform(element, same arguments); an
\* empty group stays empty; and when transform() raises for one element the
\* call raises and no container is built.  transform(element, ...) is what
\* a first call on the single element returns or raises.
C14_ContainerElementwise ==
    /\ (/\ Kind = "SpatialData"
        /\ pc \in {"done", "failed"}
        /\ args.maintain_positioning
        /\ (args.transformation = NoTransformation) # (args.to_coordinate_system = NoneValue))
        => Bind([g \in GroupNames |-> MkSeq(Len(called.el[g]), LAMBDA k : ApplyToItem(g, k))],
                LAMBDA applied :
           IF \A g \in GroupNames : \A k \in 1..Len(called.el[g]) : applied[g][k].ok
           THEN /\ pc = "done"
                /\ OutputElement.kind = "SpatialData"
                /\ \A g \in GroupNames :
                    /\ Len(OutputElement[g]) = Len(called.el[g])
                    /\ \A k \in 1..Len(called.el[g]) :
                        /\ OutputElement[g][k].name = called.el[g][k].name
                        /\ OutputElement[g][k].el = applied[g][k].el
                        /\ OutputElement[g][k].registry = applied[g][k].registry
           ELSE /\ pc = "failed"
                /\ error # "none"
                /\ transformed = 0
                /\ DOMAIN elements = {data})
    /\ (Kind \in ElementKinds /\ pc \in {"done", "failed"} /\ ncalls = 1)
        => Bind(TransformElement(called.el, called.registry, args.transformation,
                                 args.maintain_positioning, args.to_coordinate_system),
                LAMBDA r :
                    IF pc = "done"
                    THEN r.ok /\ r.el = OutputElement /\ r.registry = OutputRegistry
                    ELSE ~r.ok /\ r.error = error)
C14_Witness ==
    /\ Returned
    /\ Kind = "SpatialData"
    /\ args.maintain_positioning
    /\ args.transformation = Scale(<<RInt(2), RInt(2)>>, XY)
    /\ args.to_coordinate_system = NoneValue
    /\ Len(InputElement.labels) = 0
    /\ OutputElement.labels = <<>>
    /\ OutputElement.images[1].name = "image"
    /\ OutputElement.images[1].el.shape = <<2, 8, 10>>
    /\ OutputElement.points[1].el.coords = << <<RZero, RZero>>, <<RInt(2), RZero>>, <<RZero, RInt(2)>> >>
    /\ Len(OutputElement.shapes) = 2
    /\ OutputElement.shapes[2].name = "polygons"
    /\ DOMAIN OutputElement.shapes[2].registry = {"global"}

\* C15: the adjuster is given a raster_translation for a raster and none for
\* points and shapes, and what it prepends is, by kind and flag:
\* raster, maintain_positioning: Sequence([raster_translation, transformation.inverse()]);
\* raster, not maintain_positioning: raster_translation;
\* points or shapes, maintain_positioning: transformation.inverse();
\* points or shapes, not maintain_positioning: Identity.
C15_ToPrependByKindAndFlag ==
    (Kind \in ElementKinds /\ pc \in {"adjust", "schema", "done"})
    => /\ (Kind \in {"SpatialImage", "MultiscaleSpatialImage"})
            = (raster_translation # NoTransformation)
       /\ (Kind \in {"DaskDataFrame", "GeoDataFrame"})
            = (raster_translation = NoTransformation)
       /\ pc # "adjust"
            => LET raster == Kind \in {"SpatialImage", "MultiscaleSpatialImage"}
                   inverse == Inverse(resolved.transformation)
                   prepended ==
                        CASE raster /\ args.maintain_positioning ->
                                Sequence(<<raster_translation, inverse>>)
                          [] raster /\ ~args.maintain_positioning -> raster_translation
                          [] ~raster /\ args.maintain_positioning -> inverse
                          [] ~raster /\ ~args.maintain_positioning -> Identity
               IN  IF args.maintain_positioning
                   THEN OutputRegistry =
                            [cs \in DOMAIN called.registry |->
                                Sequence(<<prepended, called.registry[cs]>>)]
                   ELSE \E cs \in DOMAIN OutputRegistry :
                            OutputRegistry = [c \in {cs} |-> prepended]
C15_Witness ==
    /\ Returned
    /\ Kind = "SpatialImage"
    /\ args.maintain_positioning
    /\ resolved.transformation = Scale(<<RInt(2), RInt(2)>>, XY)
    /\ raster_translation.type = "Sequence"
    /\ DOMAIN OutputRegistry = {"global", "physical"}
    /\ OutputRegistry["global"] =
        Sequence(<<Sequence(<<raster_translation, Scale(<<RHalf, RHalf>>, XY)>>), Rot90>>)

\* The exceptions of _adjust_transformations.
AdjusterErrors ==
    {"AssertionError: to_coordinate_system is not None",
     "AssertionError: raster_translation is None",
     "AssertionError: raster_translation is not None",
     "TypeError: Unsupported type",
     "AssertionError: len(d) != 1",
     "KeyError",
     "AssertionError: not Identity"}

\* C16: whenever a handler enters the adjuster, the registry of the new
\* element holds exactly one entry, under the default coordinate system, and
\* it is Identity; with maintain_positioning=True the to_coordinate_system
\* the adjuster receives is None; so no call ends in the adjuster.
C16_AdjusterPrecondition ==
    /\ (Kind \in ElementKinds /\ pc = "adjust")
        => /\ resolved.ok
           /\ Cardinality(DOMAIN OutputRegistry) = 1
           /\ DOMAIN OutputRegistry = {DEFAULT_COORDINATE_SYSTEM}
           /\ OutputRegistry[DEFAULT_COORDINATE_SYSTEM] = Identity
           /\ args.maintain_positioning
                => AdjustTargetArgument(resolved.to_coordinate_system) = NoneValue
           /\ AdjustFailure(Kind, OutputRegistry, raster_translation,
                            args.maintain_positioning,
                            AdjustTargetArgument(resolved.to_coordinate_system)) = "none"
    /\ error \notin AdjusterErrors
    /\ ~(pc = "failed" /\ steps # <<>> /\ steps[Len(steps)] = "adjust")
C16_Witness ==
    /\ pc = "adjust"
    /\ Kind = "GeoDataFrame"
    /\ args.maintain_positioning
    /\ args.to_coordinate_system = "physical"
    /\ args.transformation = NoTransformation
    /\ DOMAIN InputRegistry = {"global", "physical"}
    /\ OutputRegistry = [cs \in {"global"} |-> Identity]

\* math.ceil of a double.
RCeil(a) ==
    Bind(DoubleOf(a), LAMBDA x :
        IF x.exp >= 0 \/ x.neg THEN FTruncValue(x) ELSE FTruncValue(x) + 1)

\* ceil(max - min) of the mapped corners, per spatial axis, in double precision.
CeilOfMappedExtent(shape, axes, transformation) ==
    Bind(MappedCorners(ToAffineMatrix(transformation, axes), CornerPoints(shape, axes)),
         LAMBDA new_v :
            MkSeq(GetNSpatialDims(axes), LAMBDA i :
                Bind(Column(new_v, Len(CShape(shape, axes)) + i), LAMBDA c :
                    RCeil(RSub(RMaxSeq(c), RMinSeq(c))))))

\* C17: the shape asked of the resampling and given to the new array is the
\* channel extent of the input, when there is a channel axis, followed by
\* ceil(max - min) of the mapped corners for every spatial axis.
C17_ShapeIsCeilOfExtent ==
    (pc \in {"adjust", "schema", "done"} /\ Kind \in RasterKinds)
    => \A i \in 1..Len(requests) :
            LET in == ResampledInput(i)
                expected == CShape(in.shape, in.axes)
                                \o CeilOfMappedExtent(in.shape, in.axes, in.transformation)
            IN  /\ requests[i].output_shape = expected
                /\ RasterShapes(OutputElement)[i] = expected

\* Translation(np.min of the mapped corners, per axis) for the array (level i)
\* a raster call resampled.
MinCornerTranslation(i) ==
    LET in == ResampledInput(i)
        new_v == MappedCorners(ToAffineMatrix(in.transformation, in.axes),
                               CornerPoints(in.shape, in.axes))
    IN  Translation(MkSeq(Len(in.axes), LAMBDA a : RMinSeq(Column(new_v, a))), in.axes)

\* C18 as stated: the matrix handed to the resampling is the inverse of the
\* matrix of Sequence([translation, transformation.inverse()]), translation
\* being the per-axis minimum of the mapped corners.
C18_MatrixIsInverseOfSequence ==
    (pc \in {"adjust", "schema", "done"} /\ Kind \in RasterKinds)
    => \A i \in 1..Len(requests) :
            LET in == ResampledInput(i)
            IN  requests[i].matrix =
                    ToAffineMatrix(
                        Inverse(Sequence(<<MinCornerTranslation(i), Inverse(in.transformation)>>)),
                        in.axes)

\* C18, amended: the matrix handed to the resampling is the matrix of
\* Sequence([translation, transformation.inverse()]) itself, translation
\* being the per-axis minimum of the mapped corners: it takes an output pixel
\* to the input grid, that is, the matrix of the transformation times it is
\* the matrix of translation up to the rounding of the doubles.  The matrix of
\* the sequence is written out for the first call of a chain.
C18_MatrixIsSequenceItself ==
    (Returned /\ Kind \in RasterKinds)
    => \A i \in 1..Len(requests) :
        Bind(ResampledInput(i), LAMBDA in :
        Bind(ToAffineMatrix(in.transformation, in.axes), LAMBDA matrix :
        Bind(MappedCorners(matrix, CornerPoints(in.shape, in.axes)), LAMBDA new_v :
        Bind(Translation(MkSeq(Len(in.axes), LAMBDA a : RMinSeq(Column(new_v, a))), in.axes),
             LAMBDA translation :
                /\ SameMatrixUpToRounding(MatMul(matrix, requests[i].matrix),
                                          ToAffineMatrix(translation, in.axes))
                /\ ncalls = 1
                    => requests[i].matrix =
                        ToAffineMatrix(Sequence(<<translation, Inverse(in.transformation)>>),
                                       in.axes)))))
C18_Witness ==
    /\ Returned
    /\ Kind = "SpatialImage"
    /\ InputElement.shape = <<2, 4, 5>>
    /\ resolved.transformation = Rot90
    /\ requests[1].matrix =
        << <<ROne, RZero, RZero, RZero>>,
           <<RZero, RZero, RInt(-1), RInt(4)>>,
           <<RZero, ROne, RZero, RZero>>,
           <<RZero, RZero, RZero, ROne>> >>

\* C19: every call of the resampling, for a single-scale raster and for every
\* level of a pyramid, for images and for labels, asks for interpolation of
\* order 0 with prefilter off.
C19_NearestWithoutPrefilter ==
    \A i \in 1..Len(requests) :
        /\ DOMAIN requests[i].kwargs = {"order", "prefilter"}
        /\ requests[i].kwargs.order = "0"
        /\ requests[i].kwargs.prefilter = "False"

\* C20: a pyramid is returned with the levels of the input under the same
\* names, each resampled by one request: scale0 with the resolved
\* transformation, every other level with
\* Sequence([scale, transformation, scale.inverse()]) for its own scale
\* (the matrix of the request takes an output pixel of the level back
\* through that transformation, up to the rounding of the doubles).
C20_LevelsResampledWithComposed ==
    (Returned /\ Kind = "MultiscaleSpatialImage")
    => LET in == called.el.levels
           out == OutputElement.levels
       IN  /\ Len(out) = Len(in)
           /\ Len(requests) = Len(in)
           /\ \A i \in 1..Len(in) :
                Bind(IF in[i].name = "scale0"
                     THEN resolved.transformation
                     ELSE Sequence(<<in[i].scale, resolved.transformation,
                                     Inverse(in[i].scale)>>), LAMBDA with :
                Bind(ToAffineMatrix(with, in[i].axes), LAMBDA matrix :
                Bind(MappedCorners(matrix, CornerPoints(in[i].shape, in[i].axes)),
                     LAMBDA new_v :
                Bind(Translation(TranslationVector(new_v, in[i].axes), in[i].axes),
                     LAMBDA translation :
                    /\ out[i].name = in[i].name
                    /\ out[i].axes = in[i].axes
                    /\ out[i].shape = requests[i].output_shape
                    /\ SameMatrixUpToRounding(MatMul(matrix, requests[i].matrix),
                                              ToAffineMatrix(translation, in[i].axes))))))
C20_Witness ==
    /\ Returned
    /\ Kind = "MultiscaleSpatialImage"
    /\ resolved.transformation = Rot90
    /\ Len(requests) = 2
    /\ OutputElement.levels[1].name = "scale0"
    /\ OutputElement.levels[1].shape = <<2, 40, 32>>
    /\ OutputElement.levels[2].name = "scale1"
    /\ OutputElement.levels[2].shape = <<2, 20, 8>>
    /\ requests[2].matrix # requests[1].matrix

\* ------------------------------------------------------------------------
\* C21: the raster_translation of a pyramid
\* ------------------------------------------------------------------------
\* the raster_translation _transform_raster computes for the level of the
\* key 'scale0', which is resampled with the transformation itself
LevelZeroTranslation(el, transformation) ==
    LET zero == CHOOSE i \in 1..Len(el.levels) : el.levels[i].name = "scale0"
    IN  TransformRaster(el.levels[zero].shape, el.levels[zero].axes, transformation,
                        MultiscaleKwargs(el.schema)).raster_translation

AnyPoint(el) == \E g \in 1..Len(el.geometry) : el.geometry[g].gtype = "Point"

\* every radius of the set el multiplied by factor
RadiusTimes(el, factor) == [g \in 1..Len(el.radius) |-> RMul(el.radius[g], factor)]

\* C22: when some geometry of the set is a point and the set has a radius
\* column, every radius is multiplied by the common modulus of the eigenvalues
\* of the linear block, without a warning, when the moduli agree, and by
\* their mean, with the warning and without an error, when they do not; when
\* no geometry is a point or there is no radius column, the radius column is
\* as in the input and there is no warning.
C22_RadiusRule ==
    (/\ pc \in {"adjust", "schema", "done"}
     /\ Kind = "GeoDataFrame"
     /\ Len(steps) >= 2)
    => Bind(EigenvalueModules(ToAffineMatrix(resolved.transformation, XY)), LAMBDA modules :
        IF AnyPoint(called.el) /\ called.el.has_radius
        THEN IF modules[1] = modules[2]
             THEN /\ OutputElement.radius = RadiusTimes(called.el, modules[1])
                  /\ "not isotropic" \notin warnings
             ELSE /\ OutputElement.radius
                        = RadiusTimes(called.el, RDiv(RAdd(modules[1], modules[2]), RInt(2)))
                  /\ "not isotropic" \in warnings
                  /\ error = "none"
        ELSE /\ OutputElement.has_radius = called.el.has_radius
             /\ OutputElement.radius = called.el.radius
             /\ "not isotropic" \notin warnings)

====
